---- MODULE Spec2Model ----
(***************************************************************************)
(* A model of the MCP App Template server (src/server/main.py) and of its  *)
(* chat simulator (src/server/agent_runner.py).                            *)
(*                                                                         *)
(* The subsystems are modelled under these specifications:                 *)
(*   SpecHtml      the HTML asset loader and its mtime-keyed cache, over a *)
(*                 small file system with a clock;                         *)
(*   SpecDispatch  the call-tool dispatcher, the widget handlers and their *)
(*                 input validation;                                       *)
(*   SpecResource  the read-resource handler over the same file system;    *)
(*   SpecTools     the protocol handlers side by side: list tools, GET     *)
(*                 /tools, call tool and read resource, under a changing   *)
(*                 BASE_URL;                                               *)
(*   SpecBridge    POST /tools/call over a changing assets directory;      *)
(*   SpecChat      the chat simulator: POST /chat coroutines under the     *)
(*                 event loop, and POST /chat/reset;                       *)
(*   SpecSandbox   the import of main and the ASGI events that follow;     *)
(*   SpecScenario  the scenario projection in floating-point arithmetic;   *)
(*   SpecRace      concurrent calls of load_widget_html, interleaved       *)
(*                 statement by statement;                                 *)
(*   SpecDiscovery the auto-discovery loop of the widgets package          *)
(*                 (src/server/widgets/__init__.py), some modules faulty;  *)
(*   SpecConv      the conversation history of the agent runner.           *)
(*                                                                         *)
(* Text is modelled as sequences: a file name or component name is a       *)
(* sequence of characters (the extension ".html" is one character, since   *)
(* it always comes last), a URL is a sequence of segments, an HTML         *)
(* document is a sequence of tokens, each token a sequence of strings.     *)
(***************************************************************************)
EXTENDS Integers, Sequences, FiniteSets, TLC

VARIABLES
    files,          \* assets directory: file name -> [exists, content, mtime]
    now,            \* the file system's clock (the mtime a write stamps)
    env,            \* os.environ, as far as BASE_URL goes
    _html_cache,    \* main.py:81   component name -> html
    _html_mtimes,   \* main.py:82   component name -> mtime
    prev,           \* history: per component, what the last successful load returned
    ret,            \* history: the call the last step made, and what it returned
    req,            \* the request being received by the dispatcher
    resp,           \* the dispatcher's answer to req
    called,         \* history: the handlers the last dispatch invoked, and the
                    \* outcomes of the outbound HTTP calls they made
    conversations,  \* agent_runner.py:144  conversation id -> list of messages
    MAX_CONVERSATION_HISTORY, \* agent_runner.py:57, read from the config file
    appended,       \* history: per conversation id, the messages added since its last clear
    convRet,        \* history: the ConversationManager call the last step made
    widgets,        \* widgets/__init__.py:11-31  the registries of the widgets package
    discovery,      \* the position of the package's discovery loop, its outcome,
                    \* and which modules of the package are faulty
    loaders,        \* the concurrent calls of load_widget_html: per call its
                    \* position in the function and its local variables
    tasks,          \* the requests of the chat simulator: per request its body,
                    \* its position in chat_endpoint and run_agent, its locals
    sandbox,        \* the process as far as the sandbox proxy goes: whether
                    \* main is imported, the servers started, the ASGI events
    scenario        \* the scenario modeler: the parameters of the last
                    \* projection and what it returned

htmlVars == <<files, now, env, _html_cache, _html_mtimes, prev, ret>>
dispVars == <<req, resp, called>>
convVars == <<conversations, MAX_CONVERSATION_HISTORY, appended, convRet>>
discVars == <<widgets, discovery>>
raceVars == <<loaders>>
agentVars == <<tasks>>
sandboxVars == <<sandbox>>
scenarioVars == <<scenario>>
vars == <<files, now, env, _html_cache, _html_mtimes, prev, ret, req, resp, called,
          conversations, MAX_CONVERSATION_HISTORY, appended, convRet,
          widgets, discovery, loaders, tasks, sandbox, scenario>>

----------------------------------------------------------------------------
(* Bounds of the model *)

\* The clock runs from 0 to MaxTime.
MaxTime == 2

\* An argument mapping has at most MaxArgs keys.
MaxArgs == 2

\* The configured maximum of the conversation history is 0..MaxHistory, and a
\* conversation gets at most MaxAdds messages between two clears.
MaxHistory == 2
MaxAdds == 3

\* The modules of the widgets package that may be faulty at once.
MaxFaults == 1

\* The calls of load_widget_html that run concurrently.
MaxLoaders == 2

\* The POST /chat requests the server handles, concurrently or in turn.
MaxTasks == 2

\* The ASGI events the process receives.
MaxEvents == 4

\* The width in bits of the significand of a floating-point number.  Python's
\* float has 53; the arithmetic below is IEEE 754's, round to nearest, ties to
\* even, at this width, with no bound on the exponent.
MantissaBits == 12

----------------------------------------------------------------------------
(* Text helpers *)

Min(a, b) == IF a < b THEN a ELSE b

\* Python's dict assignment d[k] = v, on a function whose domain is the keys.
DictSet(d, k, v) == [x \in (DOMAIN d) \cup {k} |-> IF x = k THEN v ELSE d[x]]

\* Python's del d[k].
DictDel(d, k) == [x \in (DOMAIN d) \ {k} |-> d[x]]

EmptyDict == <<>>

\* The extension, one character of a file name.
Ext == ".html"

\* The lower-case letters, in code point order from "a" (97).
Letters ==
    <<"a", "b", "c", "d", "e", "f", "g", "h", "i", "j", "k", "l", "m",
      "n", "o", "p", "q", "r", "s", "t", "u", "v", "w", "x", "y", "z">>

\* Code point of a character of a file name.
Ord(ch) ==
    CASE ch = "-" -> 45
      [] ch = Ext -> 46
      [] OTHER -> 96 + (CHOOSE i \in DOMAIN Letters : Letters[i] = ch)

\* Python's str < str: code point order, a proper prefix first.
StrLess(a, b) ==
    \E i \in 1..(Min(Len(a), Len(b)) + 1) :
        /\ \A j \in 1..(i - 1) : a[j] = b[j]
        /\ \/ i > Len(a) /\ i <= Len(b)
           \/ i <= Len(a) /\ i <= Len(b) /\ Ord(a[i]) < Ord(b[i])

----------------------------------------------------------------------------
(* Widget registry: main.py 71, 150-489 *)

MIME_TYPE == "text/html;profile=mcp-app"

\* A widget of create_widgets(): title, description and the two status strings
\* play no part in dispatch and are left out.
\* Mutant of W: the template URI given is dropped for a fixed one.
W_FixedUri(identifier, template_uri, component_name) ==
    [identifier |-> identifier, template_uri |-> "ui://widget/widget.html",
     component_name |-> component_name]

W(identifier, template_uri, component_name) ==
    [identifier |-> identifier, template_uri |-> template_uri,
     component_name |-> component_name]

WIDGETS ==
    << W("show_card", "ui://widget/boilerplate.html", <<"b", "o", "i", "l", "e", "r", "p", "l", "a", "t", "e">>),
       W("show_carousel", "ui://widget/carousel.html", <<"c", "a", "r", "o", "u", "s", "e", "l">>),
       W("show_list", "ui://widget/list.html", <<"l", "i", "s", "t">>),
       W("show_gallery", "ui://widget/gallery.html", <<"g", "a", "l", "l", "e", "r", "y">>),
       W("show_dashboard", "ui://widget/dashboard.html", <<"d", "a", "s", "h", "b", "o", "a", "r", "d">>),
       W("show_solar_system", "ui://widget/solar-system.html", <<"s", "o", "l", "a", "r", "-", "s", "y", "s", "t", "e", "m">>),
       W("show_todo", "ui://widget/todo.html", <<"t", "o", "d", "o">>),
       W("show_shop", "ui://widget/shop.html", <<"s", "h", "o", "p">>),
       W("show_qr", "ui://widget/qr.html", <<"q", "r">>),
       W("get_scenario_data", "ui://widget/scenario-modeler.html", <<"s", "c", "e", "n", "a", "r", "i", "o", "-", "m", "o", "d", "e", "l", "e", "r">>),
       W("get_system_info", "ui://widget/system-monitor.html", <<"s", "y", "s", "t", "e", "m", "-", "m", "o", "n", "i", "t", "o", "r">>),
       W("show_map", "ui://widget/map.html", <<"m", "a", "p">>) >>

\* A dict comprehension over WIDGETS keeps, for a key, the last widget that
\* has it: the widget at the highest of the positions S.
LastAt(S) == WIDGETS[CHOOSE i \in S : \A j \in S : j <= i]

\* {w.identifier: w for w in WIDGETS}
WIDGETS_BY_ID ==
    [k \in {WIDGETS[i].identifier : i \in DOMAIN WIDGETS} |->
        LastAt({i \in DOMAIN WIDGETS : WIDGETS[i].identifier = k})]

\* {w.template_uri: w for w in WIDGETS}
WIDGETS_BY_URI ==
    [k \in {WIDGETS[i].template_uri : i \in DOMAIN WIDGETS} |->
        LastAt({i \in DOMAIN WIDGETS : WIDGETS[i].template_uri = k})]

----------------------------------------------------------------------------
(* HTML asset loader: main.py 68-143 (the same code is widgets/_base.py 26-96) *)

ASSETS_DIR == "assets"

_DEFAULT_BASE_URL == <<"http://localhost:8000", "/assets">>

\* Values BASE_URL takes in the environment; the second ends with a slash.
BaseUrlValues ==
    {<<"https://cdn.example.com", "/assets", "/">>}

\* The components load_widget_html is asked for: that of the qr widget, of
\* which the assets directory may hold the exact file and two content-hashed
\* builds, and that of the map widget, which is never built.
Components == {<<"q", "r">>, <<"m", "a", "p">>}

FileNames ==
    {<<"q", "r", Ext>>, <<"q", "r", "-", "a", Ext>>, <<"q", "r", "-", "b", Ext>>}

\* Tokens of an HTML document: a relative reference is what the loader rewrites.
RelSrc == <<"src=\"", "./">>
RelHref == <<"href=\"", "./">>

Contents ==
    {<< <<"<html>A</html>">> >>,
     << <<"<html>B">>, RelSrc, RelHref >>}

NoFile == [exists |-> FALSE, content |-> <<>>, mtime |-> 0]

\* str.rstrip("/") on a URL: its trailing "/" segments go.
RECURSIVE RStrip(_)
RStrip(url) ==
    IF url # <<>> /\ url[Len(url)] = "/"
    THEN RStrip(SubSeq(url, 1, Len(url) - 1))
    ELSE url

get_base_url ==
    RStrip(IF "BASE_URL" \in DOMAIN env THEN env["BASE_URL"] ELSE _DEFAULT_BASE_URL)

\* Path.glob(f"{component_name}-*.html") on one file name.
GlobMatch(component_name, f) ==
    /\ Len(f) >= Len(component_name) + 2
    /\ SubSeq(f, 1, Len(component_name)) = component_name
    /\ f[Len(component_name) + 1] = "-"
    /\ f[Len(f)] = Ext

\* sorted(candidates)[-1]: the candidate no other candidate is above.
LastSorted(candidates) ==
    CHOOSE f \in candidates : \A g \in candidates : g = f \/ StrLess(g, f)

\* sorted(candidates)[0]: the mutant's pick among the content-hashed builds.
FirstSorted(candidates) ==
    CHOOSE f \in candidates : \A g \in candidates : g = f \/ StrLess(f, g)

\* Mutant of _resolve_html_path: the first of the sorted candidates, not the last.
_resolve_html_path_First(component_name) ==
    LET html_path == component_name \o <<Ext>>
        fallback_candidates ==
            {f \in FileNames : files[f].exists /\ GlobMatch(component_name, f)}
    IN  IF html_path \in FileNames /\ files[html_path].exists
        THEN [found |-> TRUE, path |-> html_path]
        ELSE IF fallback_candidates # {}
        THEN [found |-> TRUE, path |-> FirstSorted(fallback_candidates)]
        ELSE [found |-> FALSE, path |-> <<>>]

\* Mutant of _resolve_html_path: nothing is raised, the exact path is returned
\* whether or not the file exists.
_resolve_html_path_NoRaise(component_name) ==
    LET html_path == component_name \o <<Ext>>
        fallback_candidates ==
            {f \in FileNames : files[f].exists /\ GlobMatch(component_name, f)}
    IN  IF html_path \in FileNames /\ files[html_path].exists
        THEN [found |-> TRUE, path |-> html_path]
        ELSE IF fallback_candidates # {}
        THEN [found |-> TRUE, path |-> LastSorted(fallback_candidates)]
        ELSE [found |-> TRUE, path |-> html_path]

\* The result found |-> FALSE stands for the FileNotFoundError raised.
_resolve_html_path(component_name) ==
    LET html_path == component_name \o <<Ext>>
        fallback_candidates ==
            {f \in FileNames : files[f].exists /\ GlobMatch(component_name, f)}
    IN  IF html_path \in FileNames /\ files[html_path].exists
        THEN [found |-> TRUE, path |-> html_path]
        ELSE IF fallback_candidates # {}
        THEN [found |-> TRUE, path |-> LastSorted(fallback_candidates)]
        ELSE [found |-> FALSE, path |-> <<>>]

\* The message of the FileNotFoundError, in its parts.
NotFoundMessage(component_name) ==
    << <<"Widget HTML for \"">>, component_name, <<"\" not found in ">>,
       <<ASSETS_DIR>>,
       <<". Run pnpm run build from the repo root to generate the assets.">> >>

\* str.replace(old, new) on a document: every occurrence of the token.
Replace(html, old, new) ==
    [i \in 1..Len(html) |-> IF html[i] = old THEN new ELSE html[i]]

\* main.py 134-135: relative references become absolute URLs under base_url.
RewriteHtml(html, base_url) ==
    Replace(Replace(html, RelSrc, <<"src=\"">> \o base_url \o <<"/">>),
            RelHref, <<"href=\"">> \o base_url \o <<"/">>)

\* Mutant of CacheValid: the entry is served whatever its mtime (a plain memo).
CacheValid_NoMtime(component_name, current_mtime) ==
    component_name \in DOMAIN _html_cache

\* Mutant of CacheValid: the mtime is looked up under the file name, which is
\* never a key, so no entry is ever served.
CacheValid_WrongKey(component_name, current_mtime) ==
    /\ component_name \in DOMAIN _html_cache
    /\ component_name \o <<Ext>> \in DOMAIN _html_mtimes
    /\ _html_mtimes[component_name \o <<Ext>>] = current_mtime

\* Mutant of CacheValid: the entry is served only if it is also what the
\* current base URL makes of the file.
CacheValid_BaseUrlAware(component_name, current_mtime) ==
    /\ component_name \in DOMAIN _html_cache
    /\ component_name \in DOMAIN _html_mtimes
    /\ _html_mtimes[component_name] = current_mtime
    /\ _html_cache[component_name] =
            RewriteHtml(files[_resolve_html_path(component_name).path].content,
                        get_base_url)

\* main.py 126: the entry is served only while its mtime is the file's.
CacheValid(component_name, current_mtime) ==
    /\ component_name \in DOMAIN _html_cache
    /\ component_name \in DOMAIN _html_mtimes
    /\ _html_mtimes[component_name] = current_mtime

NoPrev == [loaded |-> FALSE, html |-> <<>>, dirty |-> FALSE]

NoCall ==
    [op |-> "none", name |-> <<>>, outcome |-> "none", read |-> FALSE,
     html |-> <<>>, msg |-> <<>>, path |-> <<>>, was |-> NoPrev]

\* Whether a change of file f can change what component c resolves to or reads.
Concerns(c, f) == f = c \o <<Ext>> \/ GlobMatch(c, f)

MarkDirty(f) ==
    [c \in Components |->
        IF Concerns(c, f) /\ prev[c].loaded
        THEN [prev[c] EXCEPT !.dirty = TRUE]
        ELSE prev[c]]

load_widget_html(component_name) ==
    LET r == _resolve_html_path(component_name)
        html_path == r.path
        current_mtime == files[html_path].mtime
        html == RewriteHtml(files[html_path].content, get_base_url)
        call == [op |-> "load", name |-> component_name, path |-> html_path,
                 was |-> prev[component_name]]
    IN  IF ~r.found
        THEN /\ ret' = call @@ [outcome |-> "FileNotFoundError", read |-> FALSE,
                                html |-> <<>>,
                                msg |-> NotFoundMessage(component_name)]
             /\ UNCHANGED <<_html_cache, _html_mtimes, prev>>
        ELSE IF CacheValid(component_name, current_mtime)
        THEN /\ ret' = call @@ [outcome |-> "hit", read |-> FALSE, msg |-> <<>>,
                                html |-> _html_cache[component_name]]
             /\ prev' = [prev EXCEPT ![component_name] =
                            [loaded |-> TRUE, dirty |-> FALSE,
                             html |-> _html_cache[component_name]]]
             /\ UNCHANGED <<_html_cache, _html_mtimes>>
        ELSE /\ _html_cache' = DictSet(_html_cache, component_name, html)
             /\ _html_mtimes' = DictSet(_html_mtimes, component_name, current_mtime)
             /\ ret' = call @@ [outcome |-> "miss", read |-> TRUE, msg |-> <<>>,
                                html |-> html]
             /\ prev' = [prev EXCEPT ![component_name] =
                            [loaded |-> TRUE, dirty |-> FALSE, html |-> html]]

LoadWidgetHtml ==
    \E c \in Components :
        /\ load_widget_html(c)
        /\ UNCHANGED <<files, now, env>>
        /\ UNCHANGED <<dispVars, convVars, discVars>>
        /\ UNCHANGED <<raceVars, agentVars, sandboxVars, scenarioVars>>

_clear_html_cache ==
    /\ _html_cache' = EmptyDict
    /\ _html_mtimes' = EmptyDict
    /\ prev' = [c \in Components |-> NoPrev]
    /\ ret' = NoCall
    /\ UNCHANGED <<files, now, env>>
    /\ UNCHANGED <<dispVars, convVars, discVars>>
    /\ UNCHANGED <<raceVars, agentVars, sandboxVars, scenarioVars>>

\* The environment: a build (or a test) writes or removes an asset file; a write
\* stamps the file with the clock's current time.
WriteFile ==
    \E f \in FileNames, c \in Contents :
        /\ files' = [files EXCEPT ![f] = [exists |-> TRUE, content |-> c, mtime |-> now]]
        /\ files' # files
        /\ prev' = MarkDirty(f)
        /\ ret' = NoCall
        /\ UNCHANGED <<now, env, _html_cache, _html_mtimes>>
        /\ UNCHANGED <<dispVars, convVars, discVars>>
        /\ UNCHANGED <<raceVars, agentVars, sandboxVars, scenarioVars>>

DeleteFile ==
    \E f \in FileNames :
        /\ files[f].exists
        /\ files' = [files EXCEPT ![f] = NoFile]
        /\ prev' = MarkDirty(f)
        /\ ret' = NoCall
        /\ UNCHANGED <<now, env, _html_cache, _html_mtimes>>
        /\ UNCHANGED <<dispVars, convVars, discVars>>
        /\ UNCHANGED <<raceVars, agentVars, sandboxVars, scenarioVars>>

Tick ==
    /\ now < MaxTime
    /\ now' = now + 1
    /\ ret' = NoCall
    /\ UNCHANGED <<files, env, _html_cache, _html_mtimes, prev>>
    /\ UNCHANGED <<dispVars, convVars, discVars>>
    /\ UNCHANGED <<raceVars, agentVars, sandboxVars, scenarioVars>>

SetBaseUrl ==
    \E u \in BaseUrlValues :
        /\ env' = DictSet(env, "BASE_URL", u)
        /\ env' # env
        /\ ret' = NoCall
        /\ UNCHANGED <<files, now, _html_cache, _html_mtimes, prev>>
        /\ UNCHANGED <<dispVars, convVars, discVars>>
        /\ UNCHANGED <<raceVars, agentVars, sandboxVars, scenarioVars>>

UnsetBaseUrl ==
    /\ "BASE_URL" \in DOMAIN env
    /\ env' = DictDel(env, "BASE_URL")
    /\ ret' = NoCall
    /\ UNCHANGED <<files, now, _html_cache, _html_mtimes, prev>>
    /\ UNCHANGED <<dispVars, convVars, discVars>>
    /\ UNCHANGED <<raceVars, agentVars, sandboxVars, scenarioVars>>

----------------------------------------------------------------------------
(* Input schemas: main.py 496-590, 959-972 *)

\* JSON values of an argument mapping, tagged with their JSON type.
StrVal(v) == [t |-> "str", v |-> v]
IntVal(v) == [t |-> "int", v |-> v]
FloatVal(v) == [t |-> "float", v |-> v]
Null == [t |-> "null", v |-> ""]
\* Fixture data a handler returns whatever the input.
Data(v) == [t |-> "data", v |-> v]

\* A field of an input model: Field(default=..., alias=...).
F(name, alias, type, default) ==
    [name |-> name, alias |-> alias, type |-> type, default |-> default]

CardInput ==
    << F("title", "title", "str", StrVal("Card Widget")),
       F("message", "message", "str", StrVal("Hello from the server!")),
       F("accent_color", "accentColor", "str", StrVal("#2563eb")) >>

CarouselInput ==
    << F("title", "title", "str", StrVal("Recommendations")),
       F("category", "category", "str", StrVal("restaurants")) >>

ListInput ==
    << F("title", "title", "str", StrVal("Top Picks")),
       F("subtitle", "subtitle", "str", StrVal("Curated recommendations")),
       F("category", "category", "str", StrVal("restaurants")) >>

GalleryInput ==
    << F("title", "title", "str", StrVal("Photo Gallery")),
       F("category", "category", "str", StrVal("nature")) >>

DashboardInput ==
    << F("title", "title", "str", StrVal("Dashboard")),
       F("period", "period", "str", StrVal("Last 30 days")) >>

SolarSystemInput ==
    << F("planet_name", "planet_name", "optional_str", Null),
       F("title", "title", "str", StrVal("Solar System Explorer")) >>

TodoInput == << F("title", "title", "str", StrVal("My Tasks")) >>

ShopInput == << F("title", "title", "str", StrVal("Your Cart")) >>

QrInput ==
    << F("text", "text", "str", StrVal("https://modelcontextprotocol.io")),
       F("box_size", "boxSize", "int", IntVal("10")),
       F("border", "border", "int", IntVal("4")),
       F("error_correction", "errorCorrection", "str", StrVal("M")),
       F("fill_color", "fillColor", "str", StrVal("black")),
       F("back_color", "backColor", "str", StrVal("white")) >>

ScenarioModelerInput ==
    << F("starting_mrr", "startingMRR", "float", FloatVal("50000")),
       F("monthly_growth_rate", "monthlyGrowthRate", "float", FloatVal("5")),
       F("monthly_churn_rate", "monthlyChurnRate", "float", FloatVal("3")),
       F("gross_margin", "grossMargin", "float", FloatVal("80")),
       F("fixed_costs", "fixedCosts", "float", FloatVal("30000")) >>

SystemInfoInput == << >>

ShowMapInput ==
    << F("west", "west", "float", FloatVal("-0.5")),
       F("south", "south", "float", FloatVal("51.3")),
       F("east", "east", "float", FloatVal("0.3")),
       F("north", "north", "float", FloatVal("51.7")) >>

GeocodeInput == << F("query", "query", "str", StrVal("London")) >>

\* main.py 959-972.
WIDGET_INPUT_MODELS ==
    [show_card |-> CardInput, show_carousel |-> CarouselInput,
     show_list |-> ListInput, show_gallery |-> GalleryInput,
     show_dashboard |-> DashboardInput, show_solar_system |-> SolarSystemInput,
     show_todo |-> TodoInput, show_shop |-> ShopInput, show_qr |-> QrInput,
     get_scenario_data |-> ScenarioModelerInput,
     get_system_info |-> SystemInfoInput, show_map |-> ShowMapInput]


----------------------------------------------------------------------------
(* Input validation: pydantic's model_validate under                        *)
(* ConfigDict(populate_by_name=True, extra="forbid"), and main.py 1135-1150 *)

Range(s) == {s[i] : i \in DOMAIN s}

\* The integer literals of the model, int(s) and str(n) between them.
IntLiterals == {"-3", "0", "1", "4", "7", "10", "42"}

IntOf(s) ==
    CASE s = "-3" -> 0 - 3
      [] s = "0" -> 0
      [] s = "1" -> 1
      [] s = "4" -> 4
      [] s = "7" -> 7
      [] s = "10" -> 10
      [] s = "42" -> 42

IntText(n) == CHOOSE s \in IntLiterals : IntOf(s) = n

\* float(n) of an integer literal, as Python prints it.
FloatOf(s) == s \o ".0"

\* An argument mapping is a JSON object: its keys are distinct and keep the
\* order they were written in.
Keys(arguments) == {arguments[i][1] : i \in DOMAIN arguments}

Get(arguments, k) ==
    arguments[CHOOSE i \in DOMAIN arguments : arguments[i][1] = k][2]

Ok(value) == [ok |-> TRUE, value |-> value, msg |-> ""]
Err(msg) == [ok |-> FALSE, value |-> Null, msg |-> msg]

\* Validation of one value against a field's annotation (lax mode: a numeric
\* string is a number, a number is never a string).
Coerce(type, val) ==
    CASE type = "str" ->
            IF val.t = "str" THEN Ok(val)
            ELSE Err("Input should be a valid string")
      [] type = "optional_str" ->
            IF val.t \in {"str", "null"} THEN Ok(val)
            ELSE Err("Input should be a valid string")
      [] type = "int" ->
            CASE val.t = "int" -> Ok(val)
              [] val.t = "str" ->
                    IF val.v \in IntLiterals THEN Ok(IntVal(val.v))
                    ELSE Err("Input should be a valid integer, unable to parse string as an integer")
              [] OTHER -> Err("Input should be a valid integer")
      [] type = "float" ->
            CASE val.t = "float" -> Ok(val)
              [] val.t = "int" -> Ok(FloatVal(FloatOf(val.v)))
              [] val.t = "str" ->
                    IF val.v \in IntLiterals THEN Ok(FloatVal(FloatOf(val.v)))
                    ELSE Err("Input should be a valid number, unable to parse string as a number")
              [] OTHER -> Err("Input should be a valid number")

\* The key a field is read from: its alias, else (populate_by_name) its name.
LookupKey(f, arguments) ==
    IF f.alias \in Keys(arguments) THEN [found |-> TRUE, key |-> f.alias]
    ELSE IF f.name \in Keys(arguments) THEN [found |-> TRUE, key |-> f.name]
    ELSE [found |-> FALSE, key |-> f.name]

\* Mutant of ValidateField: a field without a default, required of the caller.
ValidateField_Required(f, arguments) ==
    LET lookup == LookupKey(f, arguments)
    IN  IF lookup.found
        THEN Coerce(f.type, Get(arguments, lookup.key)) @@ [loc |-> lookup.key]
        ELSE Err("Field required") @@ [loc |-> lookup.key]

ValidateField(f, arguments) ==
    LET lookup == LookupKey(f, arguments)
    IN  IF lookup.found
        THEN Coerce(f.type, Get(arguments, lookup.key)) @@ [loc |-> lookup.key]
        ELSE Ok(f.default) @@ [loc |-> lookup.key]

\* Mutant of ExtraKeys: extra="ignore", unknown keys are dropped silently.
ExtraKeys_Ignore(fields, arguments) == << >>

\* extra="forbid": every key no field was read from is an error, in the order
\* of the mapping.
ExtraKeys(fields, arguments) ==
    LET used == {LookupKey(fields[i], arguments).key : i \in DOMAIN fields}
    IN  SelectSeq(arguments, LAMBDA p : p[1] \notin used)

\* model_validate: the payload, or the errors a ValidationError carries
\* (the fields' errors in field order, then the extra keys).
model_validate(fields, arguments) ==
    LET results == [i \in DOMAIN fields |-> ValidateField(fields[i], arguments)]
        failed == SelectSeq(results, LAMBDA r : ~r.ok)
        extra == ExtraKeys(fields, arguments)
        errors ==
            [i \in DOMAIN failed |-> [loc |-> failed[i].loc, msg |-> failed[i].msg]]
            \o [i \in DOMAIN extra |->
                    [loc |-> extra[i][1], msg |-> "Extra inputs are not permitted"]]
        names == {fields[i].name : i \in DOMAIN fields}
    IN  [ok |-> errors = << >>,
         errors |-> errors,
         payload |-> [n \in names |->
                        results[CHOOSE i \in DOMAIN fields : fields[i].name = n].value]]

\* sep.join(parts), each part a sequence of strings.
RECURSIVE Join(_, _)
Join(parts, sep) ==
    IF parts = << >> THEN << >>
    ELSE IF Len(parts) = 1 THEN parts[1]
    ELSE parts[1] \o <<sep>> \o Join(Tail(parts), sep)

\* list(input_class.model_fields.keys())
ValidFields(input_class) == [i \in DOMAIN input_class |-> <<input_class[i].name>>]

\* main.py 1135-1150.  A text is the sequence of the pieces it is the
\* concatenation of.
format_validation_error(e, input_class) ==
    LET field_errors == [i \in DOMAIN e |-> <<"  - ", e[i].loc, ": ", e[i].msg>>]
        valid_fields == ValidFields(input_class)
    IN  <<"Validation error. Issues:\n">>
        \o Join(field_errors, "\n")
        \o <<"\n\nValid fields: ">>
        \o Join(valid_fields, ", ")


----------------------------------------------------------------------------
(* Result metadata: main.py 889-951 *)

EXTERNAL_RESOURCE_DOMAINS ==
    <<"https://cdn.openai.com", "https://images.unsplash.com",
      "https://persistent.oaistatic.com", "https://cesium.com",
      "https://tile.openstreetmap.org">>

EXTERNAL_CONNECT_DOMAINS ==
    <<"https://cesium.com", "https://tile.openstreetmap.org">>

\* urlparse(base_url): scheme and netloc are the first segment of a URL.
Origin(url) == url[1]

\* Mutant of get_csp_domains: the origin is that of the default base URL,
\* whatever BASE_URL says.
get_csp_domains_DefaultOrigin ==
    LET origin == Origin(_DEFAULT_BASE_URL)
    IN  [resourceDomains |-> <<origin>> \o EXTERNAL_RESOURCE_DOMAINS,
         connectDomains |-> <<origin>> \o EXTERNAL_CONNECT_DOMAINS]

get_csp_domains ==
    LET origin == Origin(get_base_url)
    IN  [resourceDomains |-> <<origin>> \o EXTERNAL_RESOURCE_DOMAINS,
         connectDomains |-> <<origin>> \o EXTERNAL_CONNECT_DOMAINS]

get_tool_meta(widget) ==
    [ui |-> [resourceUri |-> widget.template_uri, csp |-> get_csp_domains]]

get_invocation_meta(widget) ==
    [ui |-> [resourceUri |-> widget.template_uri, csp |-> get_csp_domains]]

----------------------------------------------------------------------------
(* Results of the handlers *)

NoMeta == [none |-> TRUE]
NoStructuredContent == [none |-> TRUE]

TextContent(text) == [type |-> "text", text |-> text]
ImageContent(data, mimeType) == [type |-> "image", data |-> data, mimeType |-> mimeType]

\* types.CallToolResult: structuredContent and _meta default to None, isError
\* to False.
CallToolResult(content, structuredContent, meta, isError) ==
    [kind |-> "CallToolResult", content |-> content,
     has_structuredContent |-> structuredContent # NoStructuredContent,
     structuredContent |-> structuredContent,
     has_meta |-> meta # NoMeta, meta |-> meta, isError |-> isError]

\* The handler did not return: the exception propagates to its caller.
Raised(exception) == [kind |-> "raised", exception |-> exception]

\* The except branch every validating handler has.
ValidationFailure(e, input_class) ==
    CallToolResult(<<TextContent(format_validation_error(e, input_class))>>,
                   NoStructuredContent, NoMeta, TRUE)

Success(widget, text, structured_content) ==
    CallToolResult(<<TextContent(text)>>, structured_content,
                   get_invocation_meta(widget), FALSE)

\* Python's x or default on a string.
OrStr(x, default) == IF x.t = "null" \/ x.v = "" THEN default ELSE x.v

Max(a, b) == IF a > b THEN a ELSE b

\* str.upper() on the strings of the model.
Upper(s) == CASE s = "x" -> "X" [] OTHER -> s

\* f"{x:.4f}" of a float printed with one decimal.
Fmt4f(x) == x.v \o "000"

----------------------------------------------------------------------------
(* Widget handlers: main.py 1153-1530 *)

handle_card(widget, arguments) ==
    LET v == model_validate(CardInput, arguments)
        payload == v.payload
    IN  IF ~v.ok THEN ValidationFailure(v.errors, CardInput)
        ELSE Success(widget, <<"Card widget: ", payload["title"].v>>,
                [title |-> payload["title"], message |-> payload["message"],
                 accentColor |-> payload["accent_color"],
                 items |-> Data("items")])

handle_carousel(widget, arguments) ==
    LET v == model_validate(CarouselInput, arguments)
        payload == v.payload
    IN  IF ~v.ok THEN ValidationFailure(v.errors, CarouselInput)
        ELSE Success(widget,
                <<"Carousel: ", payload["title"].v, " (", "len(SAMPLE_CAROUSEL_ITEMS)", " items)">>,
                [title |-> payload["title"], items |-> Data("SAMPLE_CAROUSEL_ITEMS")])

handle_list(widget, arguments) ==
    LET v == model_validate(ListInput, arguments)
        payload == v.payload
    IN  IF ~v.ok THEN ValidationFailure(v.errors, ListInput)
        ELSE Success(widget,
                <<"List: ", payload["title"].v, " (", "len(SAMPLE_LIST_ITEMS)", " items)">>,
                [title |-> payload["title"], subtitle |-> payload["subtitle"],
                 headerImage |-> Data("headerImage"), actionLabel |-> StrVal("Save List"),
                 items |-> Data("SAMPLE_LIST_ITEMS")])

handle_gallery(widget, arguments) ==
    LET v == model_validate(GalleryInput, arguments)
        payload == v.payload
    IN  IF ~v.ok THEN ValidationFailure(v.errors, GalleryInput)
        ELSE Success(widget,
                <<"Gallery: ", payload["title"].v, " (", "len(SAMPLE_GALLERY_IMAGES)", " photos)">>,
                [title |-> payload["title"], images |-> Data("SAMPLE_GALLERY_IMAGES")])

handle_dashboard(widget, arguments) ==
    LET v == model_validate(DashboardInput, arguments)
        payload == v.payload
    IN  IF ~v.ok THEN ValidationFailure(v.errors, DashboardInput)
        ELSE Success(widget, <<"Dashboard: ", payload["title"].v>>,
                [title |-> payload["title"],
                 subtitle |-> StrVal("Your key metrics at a glance"),
                 period |-> payload["period"],
                 stats |-> Data("SAMPLE_DASHBOARD_STATS"),
                 activities |-> Data("SAMPLE_ACTIVITIES")])

handle_solar_system(widget, arguments) ==
    LET v == model_validate(SolarSystemInput, arguments)
        payload == v.payload
        planet == OrStr(payload["planet_name"], "")
        planet_msg == IF planet # "" THEN <<" (focusing on ", planet, ")">> ELSE << >>
    IN  IF ~v.ok THEN ValidationFailure(v.errors, SolarSystemInput)
        ELSE Success(widget, <<"Solar System">> \o planet_msg,
                [title |-> payload["title"], planet_name |-> StrVal(planet)])

handle_todo(widget, arguments) ==
    LET v == model_validate(TodoInput, arguments)
    IN  IF ~v.ok THEN ValidationFailure(v.errors, TodoInput)
        ELSE Success(widget,
                <<"Todo: ", "len(SAMPLE_TODO_LISTS)", " lists, ", "total_todos", " items">>,
                [lists |-> Data("SAMPLE_TODO_LISTS")])

handle_shop(widget, arguments) ==
    LET v == model_validate(ShopInput, arguments)
        payload == v.payload
    IN  IF ~v.ok THEN ValidationFailure(v.errors, ShopInput)
        ELSE Success(widget, <<"Shopping Cart: ", "total_items", " items">>,
                [title |-> payload["title"], cartItems |-> Data("SAMPLE_CART_ITEMS")])


\* What the handlers get from outside the program: the imaging library the QR
\* encoder draws with, and the outcome of the geocoder's HTTP call.
ImagingLibraries == {"pil", "pypng"}
UpstreamOutcomes == {"results", "empty", "error"}

\* Colour names the imaging library knows, among the strings of the model.
ColorNames == {"black", "white"}

handle_qr(widget, arguments, imaging) ==
    LET v == model_validate(QrInput, arguments)
        payload == v.payload
        text == OrStr(payload["text"], "https://modelcontextprotocol.io")
        box_size == Max(1, IntOf(payload["box_size"].v))
        border == Max(0, IntOf(payload["border"].v))
        fill_color == OrStr(payload["fill_color"], "black")
        back_color == OrStr(payload["back_color"], "white")
        ec_key == Upper(OrStr(payload["error_correction"], "M"))
        error_correction == IF ec_key \in {"L", "M", "Q", "H"} THEN ec_key ELSE "M"
        b64 == [t |-> "png",
                v |-> <<text, error_correction, IntText(box_size), IntText(border),
                        fill_color, back_color>>]
    IN  IF ~v.ok THEN ValidationFailure(v.errors, QrInput)
        ELSE IF imaging = "pil" /\ ~({fill_color, back_color} \subseteq ColorNames)
        THEN Raised("ValueError")
        ELSE CallToolResult(
                <<TextContent(<<"QR code generated for: ", text>>),
                  ImageContent(b64, "image/png")>>,
                [imageData |-> b64, mimeType |-> StrVal("image/png")],
                get_invocation_meta(widget), FALSE)

handle_scenario_modeler(widget, arguments) ==
    LET v == model_validate(ScenarioModelerInput, arguments)
    IN  IF ~v.ok THEN ValidationFailure(v.errors, ScenarioModelerInput)
        ELSE Success(widget,
                <<"SaaS Scenario Modeler (", "len(SCENARIO_TEMPLATES)", " templates)">>,
                [templates |-> Data("SCENARIO_TEMPLATES"),
                 defaultInputs |-> Data("SCENARIO_DEFAULT_INPUTS")])

handle_system_info(widget, arguments) ==
    LET v == model_validate(SystemInfoInput, arguments)
    IN  IF ~v.ok THEN ValidationFailure(v.errors, SystemInfoInput)
        ELSE Success(widget, <<"System: ", "hostname", " (", "platform", ")">>,
                [hostname |-> Data("hostname"), platform |-> Data("platform"),
                 cpu |-> Data("cpu"), memory |-> Data("memory")])

\* The arguments are not looked at.
handle_poll_system_stats(arguments) ==
    CallToolResult(
        <<TextContent(<<"CPU: ", "cpu_percents", ", Memory: ", "mem.percent", "%">>)>>,
        [cpuPercents |-> Data("cpuPercents"), memoryPercent |-> Data("memoryPercent"),
         memoryUsedGB |-> Data("memoryUsedGB"), memoryTotalGB |-> Data("memoryTotalGB"),
         uptime |-> Data("uptime"), timestamp |-> Data("timestamp")],
        NoMeta, FALSE)

handle_show_map(widget, arguments) ==
    LET v == model_validate(ShowMapInput, arguments)
        payload == v.payload
    IN  IF ~v.ok THEN ValidationFailure(v.errors, ShowMapInput)
        ELSE Success(widget,
                <<"Map: W:", Fmt4f(payload["west"]), " S:", Fmt4f(payload["south"]),
                  " E:", Fmt4f(payload["east"]), " N:", Fmt4f(payload["north"])>>,
                [west |-> payload["west"], south |-> payload["south"],
                 east |-> payload["east"], north |-> payload["north"]])

\* Mutant of handle_geocode: a failed call is answered like an empty one.
handle_geocode_Swallow(arguments, upstream) ==
    LET v == model_validate(GeocodeInput, arguments)
        payload == v.payload
    IN  IF ~v.ok THEN ValidationFailure(v.errors, GeocodeInput)
        ELSE IF upstream \in {"empty", "error"}
        THEN CallToolResult(
                <<TextContent(<<"No results found for \"", payload["query"].v, "\"">>)>>,
                NoStructuredContent, NoMeta, FALSE)
        ELSE CallToolResult(<<TextContent(<<"formatted">>)>>,
                NoStructuredContent, NoMeta, FALSE)

\* The HTTP call is made once the input is valid; a transport error or a
\* non-success status (raise_for_status) is not caught.
handle_geocode(arguments, upstream) ==
    LET v == model_validate(GeocodeInput, arguments)
        payload == v.payload
    IN  IF ~v.ok THEN ValidationFailure(v.errors, GeocodeInput)
        ELSE IF upstream = "error" THEN Raised("HTTPError")
        ELSE IF upstream = "empty"
        THEN CallToolResult(
                <<TextContent(<<"No results found for \"", payload["query"].v, "\"">>)>>,
                NoStructuredContent, NoMeta, FALSE)
        ELSE CallToolResult(<<TextContent(<<"formatted">>)>>,
                NoStructuredContent, NoMeta, FALSE)

----------------------------------------------------------------------------
(* Request handlers: main.py 1076-1132 *)

\* Python's None, and a JSON object given as an argument mapping.
None == [none |-> TRUE]
Mapping(items) == [none |-> FALSE, items |-> items]

CallToolRequest(name, arguments) ==
    [kind |-> "CallToolRequest", name |-> name, arguments |-> arguments]

ReadResourceRequest(uri) == [kind |-> "ReadResourceRequest", uri |-> uri]

NoRequest == [kind |-> "none"]
NoResponse == [kind |-> "none"]

UnknownTool(tool_name) ==
    CallToolResult(<<TextContent(<<"Unknown tool", ": ", tool_name>>)>>,
                   NoStructuredContent, NoMeta, TRUE)

\* Mutant of Lookup: a name the registry does not hold is served by the first
\* widget.
Lookup_Default(registry, key) ==
    IF key \in DOMAIN registry THEN registry[key] ELSE WIDGETS[1]

\* dict.get(key): the value, or None.
Lookup(registry, key) ==
    IF key \in DOMAIN registry THEN registry[key] ELSE None

\* Mutant of Route: the widget registry is consulted, and an unknown name
\* answered, before the data-only tools are looked at.
Route_WidgetsFirst(tool_name) ==
    IF Lookup(WIDGETS_BY_ID, tool_name) = None THEN "UnknownTool"
    ELSE IF tool_name = "poll_system_stats" THEN "handle_poll_system_stats"
    ELSE IF tool_name = "geocode" THEN "handle_geocode"
    ELSE "NoHandler"

\* Mutant of Route: the chain has no branch for the last widget.
Route_NoMapBranch(tool_name) ==
    IF tool_name = "poll_system_stats" THEN "handle_poll_system_stats"
    ELSE IF tool_name = "geocode" THEN "handle_geocode"
    ELSE IF Lookup(WIDGETS_BY_ID, tool_name) = None THEN "UnknownTool"
    ELSE IF tool_name \in DOMAIN WIDGETS_BY_ID \ {"show_map"}
    THEN Route_WidgetsFirst(tool_name)
    ELSE "NoHandler"

\* main.py 1090-1132: the branch the if/elif chain takes for a tool name, named
\* by the handler it calls.
Route(tool_name) ==
    IF tool_name = "poll_system_stats" THEN "handle_poll_system_stats"
    ELSE IF tool_name = "geocode" THEN "handle_geocode"
    ELSE IF Lookup(WIDGETS_BY_ID, tool_name) = None THEN "UnknownTool"
    ELSE IF tool_name = "show_card" THEN "handle_card"
    ELSE IF tool_name = "show_carousel" THEN "handle_carousel"
    ELSE IF tool_name = "show_list" THEN "handle_list"
    ELSE IF tool_name = "show_gallery" THEN "handle_gallery"
    ELSE IF tool_name = "show_dashboard" THEN "handle_dashboard"
    ELSE IF tool_name = "show_solar_system" THEN "handle_solar_system"
    ELSE IF tool_name = "show_todo" THEN "handle_todo"
    ELSE IF tool_name = "show_shop" THEN "handle_shop"
    ELSE IF tool_name = "show_qr" THEN "handle_qr"
    ELSE IF tool_name = "get_scenario_data" THEN "handle_scenario_modeler"
    ELSE IF tool_name = "get_system_info" THEN "handle_system_info"
    ELSE IF tool_name = "show_map" THEN "handle_show_map"
    ELSE "NoHandler"

\* The functions of main.py a dispatch can call.
Handlers ==
    {"handle_card", "handle_carousel", "handle_list", "handle_gallery",
     "handle_dashboard", "handle_solar_system", "handle_todo", "handle_shop",
     "handle_qr", "handle_scenario_modeler", "handle_system_info",
     "handle_show_map", "handle_poll_system_stats", "handle_geocode"}

\* The call of a handler by its name.
Invoke(handler, widget, arguments, imaging, upstream) ==
    CASE handler = "handle_poll_system_stats" -> handle_poll_system_stats(arguments)
      [] handler = "handle_geocode" -> handle_geocode(arguments, upstream)
      [] handler = "handle_card" -> handle_card(widget, arguments)
      [] handler = "handle_carousel" -> handle_carousel(widget, arguments)
      [] handler = "handle_list" -> handle_list(widget, arguments)
      [] handler = "handle_gallery" -> handle_gallery(widget, arguments)
      [] handler = "handle_dashboard" -> handle_dashboard(widget, arguments)
      [] handler = "handle_solar_system" -> handle_solar_system(widget, arguments)
      [] handler = "handle_todo" -> handle_todo(widget, arguments)
      [] handler = "handle_shop" -> handle_shop(widget, arguments)
      [] handler = "handle_qr" -> handle_qr(widget, arguments, imaging)
      [] handler = "handle_scenario_modeler" -> handle_scenario_modeler(widget, arguments)
      [] handler = "handle_system_info" -> handle_system_info(widget, arguments)
      [] handler = "handle_show_map" -> handle_show_map(widget, arguments)

\* main.py 1086-1132: the result of the branch taken is returned as it is.
handle_call_tool(request, imaging, upstream) ==
    LET tool_name == request.name
        arguments == IF request.arguments = None THEN << >> ELSE request.arguments.items
        widget == Lookup(WIDGETS_BY_ID, tool_name)
        branch == Route(tool_name)
    IN  IF branch = "UnknownTool" THEN UnknownTool(tool_name)
        ELSE IF branch = "NoHandler"
        THEN CallToolResult(<<TextContent(<<"No handler for", ": ", tool_name>>)>>,
                            NoStructuredContent, NoMeta, TRUE)
        ELSE Invoke(branch, widget, arguments, imaging, upstream)

\* The outbound HTTP calls of a handler: handle_geocode makes one client.get
\* (main.py 1505-1511) once its input is valid, no other handler makes any.
OutboundCalls(handler, arguments, upstream) ==
    IF handler = "handle_geocode" /\ model_validate(GeocodeInput, arguments).ok
    THEN <<upstream>>
    ELSE << >>

NoCalls == [handlers |-> << >>, outbound |-> << >>]

\* What a dispatch of the request called.
CallsOf(request, upstream) ==
    LET branch == Route(request.name)
        arguments == IF request.arguments = None THEN << >> ELSE request.arguments.items
    IN  IF branch \in Handlers
        THEN [handlers |-> <<branch>>,
              outbound |-> OutboundCalls(branch, arguments, upstream)]
        ELSE NoCalls

ReadResourceResult(contents, meta) ==
    [kind |-> "ReadResourceResult", contents |-> contents,
     has_meta |-> meta # NoMeta, meta |-> meta]

TextResourceContents(uri, mimeType, text, meta) ==
    [uri |-> uri, mimeType |-> mimeType, text |-> text, meta |-> meta]

UnknownResource(uri) ==
    ReadResourceResult(<< >>, [error |-> <<"Unknown resource: ", uri>>])

\* Mutant of MissingResource: an unknown URI is an exception, not a result.
MissingResource_Raises(uri) == Raised("KeyError")

\* main.py 1078-1079: the answer to a URI no widget has.
MissingResource(uri) == UnknownResource(uri)

\* Mutant of handle_read_resource: the content item carries no metadata.
handle_read_resource_NoMeta(request) ==
    LET widget == Lookup(WIDGETS_BY_URI, request.uri)
    IN  IF widget = None
        THEN /\ resp' = MissingResource(request.uri)
             /\ ret' = NoCall
             /\ UNCHANGED <<_html_cache, _html_mtimes, prev>>
        ELSE /\ load_widget_html(widget.component_name)
             /\ resp' =
                    IF ret'.outcome = "FileNotFoundError"
                    THEN Raised("FileNotFoundError")
                    ELSE ReadResourceResult(
                            <<TextResourceContents(widget.template_uri, MIME_TYPE,
                                                   ret'.html, NoMeta)>>,
                            NoMeta)

\* main.py 1076-1083.  The HTML comes from load_widget_html, which may load
\* the cache, and whose FileNotFoundError is not caught here.
handle_read_resource(request) ==
    LET widget == Lookup(WIDGETS_BY_URI, request.uri)
    IN  IF widget = None
        THEN /\ resp' = MissingResource(request.uri)
             /\ ret' = NoCall
             /\ UNCHANGED <<_html_cache, _html_mtimes, prev>>
        ELSE /\ load_widget_html(widget.component_name)
             /\ resp' =
                    IF ret'.outcome = "FileNotFoundError"
                    THEN Raised("FileNotFoundError")
                    ELSE ReadResourceResult(
                            <<TextResourceContents(widget.template_uri, MIME_TYPE,
                                                   ret'.html, get_tool_meta(widget))>>,
                            NoMeta)

----------------------------------------------------------------------------
(* Tool listing: main.py 975-1035, 1707-1732 *)

EmptySchema ==
    [type |-> "object", properties |-> << >>, additionalProperties |-> FALSE]

\* The JSON schema of a widget's input model: its properties are the fields,
\* under the names model_json_schema gives them (the aliases).
get_tool_schema(widget_id) ==
    IF widget_id \notin DOMAIN WIDGET_INPUT_MODELS \/ WIDGET_INPUT_MODELS[widget_id] = << >>
    THEN EmptySchema
    ELSE LET model_class == WIDGET_INPUT_MODELS[widget_id]
         IN  [type |-> "object",
              properties |-> [i \in DOMAIN model_class |-> model_class[i].alias],
              additionalProperties |-> FALSE]

ReadOnlyAnnotations ==
    [destructiveHint |-> FALSE, openWorldHint |-> FALSE, readOnlyHint |-> TRUE]

\* types.Tool: _meta defaults to None.
Tool(name, inputSchema, meta, annotations) ==
    [name |-> name, inputSchema |-> inputSchema,
     has_meta |-> meta # NoMeta, meta |-> meta, annotations |-> annotations]

\* The declarations list_tools appends after the widgets'.
DataOnlyDeclarations ==
    << Tool("poll_system_stats", EmptySchema, NoMeta, ReadOnlyAnnotations) >>

\* main.py 1001-1035: one declaration per widget, in the order of WIDGETS,
\* then the data-only ones.
list_tools ==
    [i \in DOMAIN WIDGETS |->
        Tool(WIDGETS[i].identifier, get_tool_schema(WIDGETS[i].identifier),
             get_tool_meta(WIDGETS[i]), ReadOnlyAnnotations)]
    \o DataOnlyDeclarations

ListToolsRequest == [kind |-> "ListToolsRequest"]
ListToolsResult(tools) == [kind |-> "ListToolsResult", tools |-> tools]

HttpGetTools == [kind |-> "GET /tools"]
JSONResponse(body) == [kind |-> "JSONResponse", body |-> body]

\* Mutant of tools_list_endpoint: every tool list_tools declares is returned.
tools_list_endpoint_AllTools ==
    JSONResponse([tools |->
        [i \in DOMAIN list_tools |->
            [type |-> "function",
             function |-> [name |-> list_tools[i].name,
                           parameters |-> list_tools[i].inputSchema]]]])

\* main.py 1707-1732: the widgets in the OpenAI function-calling shape.
tools_list_endpoint ==
    JSONResponse([tools |->
        [i \in DOMAIN WIDGETS |->
            [type |-> "function",
             function |-> [name |-> WIDGETS[i].identifier,
                           parameters |-> get_tool_schema(WIDGETS[i].identifier)]]]])

----------------------------------------------------------------------------
(* The clients of the dispatcher *)

DataOnlyTools == {"poll_system_stats", "geocode"}

\* Names no tool has: that of the test suite, a registered name in another
\* case, the empty name.
UnknownToolNames ==
    {"completely_unknown_tool_that_does_not_exist", "Show_Card", ""}

ToolNames ==
    {WIDGETS[i].identifier : i \in DOMAIN WIDGETS} \cup DataOnlyTools \cup UnknownToolNames

\* A key no input model declares (the test suite's).
UnknownKey == "completely_invalid_field_xyz"

InputModelOf(name) ==
    IF name \in DOMAIN WIDGET_INPUT_MODELS THEN WIDGET_INPUT_MODELS[name]
    ELSE IF name = "geocode" THEN GeocodeInput
    ELSE << >>

DeclaredKeys(input_class) ==
    {input_class[i].name : i \in DOMAIN input_class}
    \cup {input_class[i].alias : i \in DOMAIN input_class}

\* The keys a client writes for a tool: its fields by name and by alias, and
\* two more, of which "title" is a field of some models only.
ArgumentKeys(name) == DeclaredKeys(InputModelOf(name)) \cup {"title", UnknownKey}

\* The values a client writes: a word, an integer, null.
ArgumentValues == {StrVal("x"), IntVal("7"), Null}

\* URIs no widget has: an unknown widget, a template URI cut short, another
\* scheme.
UnknownUris ==
    {"ui://widget/unknown_widget.html", "ui://widget/qr", "https://example.com/qr.html"}

\* The URIs a client reads: those of the widgets whose components the model
\* loads, and the unknown ones.
ResourceUris ==
    {w.template_uri : w \in {x \in Range(WIDGETS) : x.component_name \in Components}}
    \cup UnknownUris

\* A call-tool request arrives, carrying no arguments yet.
ReceiveCallTool ==
    \E name \in ToolNames :
        /\ req = NoRequest \/ resp # NoResponse
        /\ req' = CallToolRequest(name, None)
        /\ resp' = NoResponse
        /\ called' = NoCalls
        /\ UNCHANGED <<htmlVars, convVars, discVars>>
        /\ UNCHANGED <<raceVars, agentVars, sandboxVars, scenarioVars>>

\* The request carries an argument mapping, empty at first.
GiveArguments ==
    /\ req.kind = "CallToolRequest"
    /\ resp = NoResponse
    /\ req.arguments = None
    /\ req' = [req EXCEPT !.arguments = Mapping(<< >>)]
    /\ UNCHANGED <<resp, called>>
    /\ UNCHANGED <<htmlVars, convVars, discVars>>
    /\ UNCHANGED <<raceVars, agentVars, sandboxVars, scenarioVars>>

\* One more key of the mapping.
AddArgument ==
    /\ req.kind = "CallToolRequest"
    /\ resp = NoResponse
    /\ req.arguments # None
    /\ Len(req.arguments.items) < MaxArgs
    /\ \E k \in ArgumentKeys(req.name) \ Keys(req.arguments.items), v \in ArgumentValues :
            req' = [req EXCEPT !.arguments = Mapping(@.items \o << <<k, v>> >>)]
    /\ UNCHANGED <<resp, called>>
    /\ UNCHANGED <<htmlVars, convVars, discVars>>
    /\ UNCHANGED <<raceVars, agentVars, sandboxVars, scenarioVars>>

\* The dispatcher answers the request.
HandleCallTool ==
    /\ req.kind = "CallToolRequest"
    /\ resp = NoResponse
    /\ \E imaging \in ImagingLibraries, upstream \in UpstreamOutcomes :
            /\ resp' = handle_call_tool(req, imaging, upstream)
            /\ called' = CallsOf(req, upstream)
    /\ UNCHANGED req
    /\ UNCHANGED <<htmlVars, convVars, discVars>>
    /\ UNCHANGED <<raceVars, agentVars, sandboxVars, scenarioVars>>

\* A read-resource request arrives and is answered.
HandleReadResource ==
    \E uri \in ResourceUris :
        /\ req' = ReadResourceRequest(uri)
        /\ handle_read_resource(req')
        /\ called' = NoCalls
        /\ UNCHANGED <<files, now, env>>
        /\ UNCHANGED <<convVars, discVars>>
        /\ UNCHANGED <<raceVars, agentVars, sandboxVars, scenarioVars>>


\* A list-tools request arrives and is answered.
ListTools ==
    /\ req' = ListToolsRequest
    /\ resp' = ListToolsResult(list_tools)
    /\ called' = NoCalls
    /\ UNCHANGED <<htmlVars, convVars, discVars>>
    /\ UNCHANGED <<raceVars, agentVars, sandboxVars, scenarioVars>>

\* GET /tools arrives and is answered.
ToolsListEndpoint ==
    /\ req' = HttpGetTools
    /\ resp' = tools_list_endpoint
    /\ called' = NoCalls
    /\ UNCHANGED <<htmlVars, convVars, discVars>>
    /\ UNCHANGED <<raceVars, agentVars, sandboxVars, scenarioVars>>

----------------------------------------------------------------------------
(* Conversation history: agent_runner.py 35-57, 140-160 *)

\* default_config["max_conversation_history"], agent_runner.py 41.
DefaultMaxHistory == 20

ConversationIds == {"default", "c1"}

NoConvCall == [op |-> "none", id |-> ""]

Message(role, content) == [role |-> role, content |-> content]

Messages ==
    {Message("user", "hi"), Message("assistant", "hello"), Message("user", "bye")}

\* Python's history[-n:] for n >= 0: the last n items, but the whole list for
\* n = 0, since -0 is 0.
LastSlice(history, n) ==
    IF n = 0 THEN history
    ELSE SubSeq(history, Max(1, Len(history) - n + 1), Len(history))

\* agent_runner.py 146-149: the list of the id, created empty if it has none.
get_history(store, conversation_id) ==
    IF conversation_id \notin DOMAIN store
    THEN DictSet(store, conversation_id, << >>)
    ELSE store

\* agent_runner.py 151-156.
add_message(store, conversation_id, role, content) ==
    LET created == get_history(store, conversation_id)
        history == Append(created[conversation_id], Message(role, content))
    IN  IF Len(history) > MAX_CONVERSATION_HISTORY
        THEN DictSet(created, conversation_id, LastSlice(history, MAX_CONVERSATION_HISTORY))
        ELSE DictSet(created, conversation_id, history)

\* agent_runner.py 158-160.
clear(store, conversation_id) ==
    IF conversation_id \in DOMAIN store THEN DictDel(store, conversation_id) ELSE store

GetHistory ==
    \E id \in ConversationIds :
        /\ conversations' = get_history(conversations, id)
        /\ convRet' = [op |-> "get_history", id |-> id]
        /\ UNCHANGED <<MAX_CONVERSATION_HISTORY, appended>>
        /\ UNCHANGED <<htmlVars, dispVars, discVars>>
        /\ UNCHANGED <<raceVars, agentVars, sandboxVars, scenarioVars>>

AddMessage ==
    \E id \in ConversationIds, m \in Messages :
        /\ Len(appended[id]) < MaxAdds
        /\ conversations' = add_message(conversations, id, m.role, m.content)
        /\ appended' = [appended EXCEPT ![id] = Append(@, m)]
        /\ convRet' = [op |-> "add_message", id |-> id]
        /\ UNCHANGED MAX_CONVERSATION_HISTORY
        /\ UNCHANGED <<htmlVars, dispVars, discVars>>
        /\ UNCHANGED <<raceVars, agentVars, sandboxVars, scenarioVars>>

Clear ==
    \E id \in ConversationIds :
        /\ conversations' = clear(conversations, id)
        /\ appended' = [appended EXCEPT ![id] = << >>]
        /\ convRet' = [op |-> "clear", id |-> id]
        /\ UNCHANGED MAX_CONVERSATION_HISTORY
        /\ UNCHANGED <<htmlVars, dispVars, discVars>>
        /\ UNCHANGED <<raceVars, agentVars, sandboxVars, scenarioVars>>


----------------------------------------------------------------------------
(* Widget auto-discovery: widgets/__init__.py *)

\* One module of the package: its name (a leading underscore is a segment of
\* its own), its WIDGET, whether it defines INPUT_MODEL, its DATA_ONLY_TOOLS.
Module(name, WIDGET, INPUT_MODEL, DATA_ONLY_TOOLS) ==
    [name |-> name, WIDGET |-> WIDGET, INPUT_MODEL |-> INPUT_MODEL,
     DATA_ONLY_TOOLS |-> DATA_ONLY_TOOLS]

\* pkgutil.iter_modules(__path__): the modules of the directory, sorted by name.
iter_modules ==
    << Module(<<"_", "base">>, None, FALSE, {}),
       Module(<<"boilerplate">>, WIDGETS[1], TRUE, {}),
       Module(<<"carousel">>, WIDGETS[2], TRUE, {}),
       Module(<<"dashboard">>, WIDGETS[5], TRUE, {}),
       Module(<<"gallery">>, WIDGETS[4], TRUE, {}),
       Module(<<"list">>, WIDGETS[3], TRUE, {}),
       Module(<<"map">>, WIDGETS[12], TRUE, {"geocode"}),
       Module(<<"qr">>, WIDGETS[9], TRUE, {}),
       Module(<<"scenario_modeler">>, WIDGETS[10], TRUE, {}),
       Module(<<"shop">>, WIDGETS[8], TRUE, {}),
       Module(<<"solar_system">>, WIDGETS[6], TRUE, {}),
       Module(<<"system_monitor">>, WIDGETS[11], TRUE, {"poll_system_stats"}),
       Module(<<"todo">>, WIDGETS[7], TRUE, {}) >>

\* What may be wrong with a module: its import raises, or it defines WIDGET
\* but no handle, so that registering it raises AttributeError.
Faults == {"ImportError", "AttributeError"}

\* The modules the loop imports: those whose name has no leading underscore.
WidgetModules == {i \in DOMAIN iter_modules : iter_modules[i].name[1] # "_"}

\* widgets/__init__.py 11-15: the registries before the loop.
EmptyRegistries ==
    [WIDGETS |-> << >>, WIDGETS_BY_ID |-> EmptyDict, WIDGET_HANDLERS |-> EmptyDict,
     WIDGET_INPUT_MODELS |-> EmptyDict, DATA_ONLY_HANDLERS |-> EmptyDict,
     WIDGETS_BY_URI |-> EmptyDict]

\* DATA_ONLY_HANDLERS.update(_mod.DATA_ONLY_TOOLS)
Update(d, keys, module) ==
    [k \in (DOMAIN d) \cup keys |-> IF k \in keys THEN <<module, k>> ELSE d[k]]

\* widgets/__init__.py 21-29: the registration of an imported module;
\* has_handle is whether _mod.handle exists.
Register(registries, mod, has_handle) ==
    LET _w == mod.WIDGET
        r1 == IF _w = None THEN registries
              ELSE [registries EXCEPT
                        !.WIDGETS = Append(@, _w),
                        !.WIDGETS_BY_ID = DictSet(@, _w.identifier, _w)]
        r2 == IF _w = None \/ ~has_handle THEN r1
              ELSE [r1 EXCEPT
                        !.WIDGET_HANDLERS = DictSet(@, _w.identifier, <<mod.name, "handle">>),
                        !.WIDGET_INPUT_MODELS =
                            IF mod.INPUT_MODEL
                            THEN DictSet(@, _w.identifier, WIDGET_INPUT_MODELS[_w.identifier])
                            ELSE @]
    IN  IF _w # None /\ ~has_handle THEN r2
        ELSE [r2 EXCEPT !.DATA_ONLY_HANDLERS = Update(@, mod.DATA_ONLY_TOOLS, mod.name)]

\* One iteration of the loop of widgets/__init__.py 17-29.  No statement of
\* the body is in a try block: an exception of the import (line 20) or of the
\* registration (line 25) ends the loop and the import of the package.
ImportModule ==
    /\ discovery.status = "importing"
    /\ discovery.next <= Len(iter_modules)
    /\ LET mod == iter_modules[discovery.next]
           fault == discovery.faults[discovery.next]
       IN  IF mod.name[1] = "_"
           THEN /\ discovery' = [discovery EXCEPT !.next = @ + 1]
                /\ UNCHANGED widgets
           ELSE IF fault = "ImportError"
           THEN /\ discovery' = [discovery EXCEPT !.status = "ImportError"]
                /\ UNCHANGED widgets
           ELSE IF fault = "AttributeError"
           THEN /\ discovery' = [discovery EXCEPT !.status = "AttributeError"]
                /\ widgets' = Register(widgets, mod, FALSE)
           ELSE /\ discovery' = [discovery EXCEPT !.next = @ + 1]
                /\ widgets' = Register(widgets, mod, TRUE)
    /\ UNCHANGED <<htmlVars, dispVars, convVars>>
    /\ UNCHANGED <<raceVars, agentVars, sandboxVars, scenarioVars>>

\* widgets/__init__.py 31: after the loop.
BuildWidgetsByUri ==
    /\ discovery.status = "importing"
    /\ discovery.next > Len(iter_modules)
    /\ widgets' = [widgets EXCEPT !.WIDGETS_BY_URI =
            [k \in {widgets.WIDGETS[i].template_uri : i \in DOMAIN widgets.WIDGETS} |->
                LET S == {i \in DOMAIN widgets.WIDGETS : widgets.WIDGETS[i].template_uri = k}
                IN  widgets.WIDGETS[CHOOSE i \in S : \A j \in S : j <= i]]]
    /\ discovery' = [discovery EXCEPT !.status = "imported"]
    /\ UNCHANGED <<htmlVars, dispVars, convVars>>
    /\ UNCHANGED <<raceVars, agentVars, sandboxVars, scenarioVars>>

----------------------------------------------------------------------------
(* POST /tools/call: main.py 1735-1781 *)

\* A key the JSON object does not hold.
Absent == [t |-> "absent", v |-> ""]
ObjVal(items) == [t |-> "object", v |-> items]

\* Request bodies: text that is not JSON, a JSON array, and JSON objects.
NotJson == [json |-> "invalid"]
JsonArray == [json |-> "array"]
JsonObject(name, arguments) == [json |-> "object", name |-> name, arguments |-> arguments]

\* The tools a client of the bridge names: the widgets whose components the
\* model loads, the data-only tools, and names no tool has.
BridgeToolNames ==
    {w.identifier : w \in {x \in Range(WIDGETS) : x.component_name \in Components}}
    \cup DataOnlyTools \cup UnknownToolNames

\* The bodies a client posts.  A name is absent, null, a number or a string;
\* the arguments are absent, null, a string or an object.
BodyShapes == {"invalid", "array", "object"}
BodyNames == {Absent, Null, IntVal("7")} \cup {StrVal(n) : n \in BridgeToolNames}
BodyArguments ==
    <<Absent, Null, StrVal("x"), ObjVal(<< >>),
      ObjVal(<< <<"query", StrVal("x")>> >>),
      ObjVal(<< <<UnknownKey, StrVal("x")>> >>)>>

Body(json, name, arguments) ==
    IF json = "invalid" THEN NotJson
    ELSE IF json = "array" THEN JsonArray
    ELSE JsonObject(name, arguments)

\* dict.get(key, default): the default answers an absent key only.
BodyGet(value, default) == IF value.t = "absent" THEN default ELSE value

\* Python's truth of a JSON value.
Falsy(value) ==
    \/ value.t = "null"
    \/ value.t \in {"str", "int"} /\ value.v \in {"", "0"} /\ (value.t = "str") = (value.v = "")
    \/ value.t = "object" /\ value.v = << >>

StatusResponse(body, status_code) ==
    [kind |-> "JSONResponse", status_code |-> status_code, body |-> body]

HttpPostToolsCall(body) == [kind |-> "POST /tools/call", body |-> body]

\* main.py 1750-1753: CallToolRequestParams takes a string for the name and a
\* mapping or None for the arguments.
ParamsValid(tool_name, arguments) ==
    tool_name.t = "str" /\ arguments.t \in {"object", "null"}

mock_req(tool_name, arguments) ==
    CallToolRequest(tool_name.v,
                    IF arguments.t = "object" THEN Mapping(arguments.v) ELSE None)

\* main.py 1756-1772, up to the load of the HTML: the response to a handler's
\* result when it is already decided, and otherwise the widget to load and the
\* response so far.
ResponseTo(tool_name, result, widget) ==
    IF result.kind = "raised"
    THEN StatusResponse([error |-> <<result.exception>>], 500)
    ELSE IF result.isError
    THEN StatusResponse(
            [error |-> IF result.content # << >> THEN result.content[1].text
                       ELSE <<"Unknown error">>], 404)
    ELSE IF widget = None
    THEN StatusResponse([tool_name |-> tool_name,
                         tool_output |-> result.structuredContent], 200)
    ELSE [kind |-> "load", widget |-> widget,
          response |-> [tool_name |-> tool_name,
                        tool_output |-> result.structuredContent]]

\* main.py 1742-1772.
tool_call_endpoint(body, imaging, upstream) ==
    IF body.json = "invalid"
    THEN StatusResponse([error |-> <<"JSONDecodeError">>], 500)
    ELSE IF body.json = "array"
    THEN StatusResponse([error |-> <<"AttributeError">>], 500)
    ELSE
    LET tool_name == BodyGet(body.name, Null)
        arguments == BodyGet(body.arguments, ObjVal(<< >>))
    IN  IF Falsy(tool_name)
        THEN StatusResponse([error |-> <<"Missing tool name">>], 400)
        ELSE IF ~ParamsValid(tool_name, arguments)
        THEN StatusResponse([error |-> <<"ValidationError">>], 500)
        ELSE ResponseTo(tool_name.v,
                        handle_call_tool(mock_req(tool_name, arguments), imaging, upstream),
                        Lookup(WIDGETS_BY_ID, tool_name.v))

\* The handlers and outbound calls of the endpoint.
BridgeCalls(body, upstream) ==
    IF body.json = "object"
    THEN LET tool_name == BodyGet(body.name, Null)
             arguments == BodyGet(body.arguments, ObjVal(<< >>))
         IN  IF ~Falsy(tool_name) /\ ParamsValid(tool_name, arguments)
             THEN CallsOf(mock_req(tool_name, arguments), upstream)
             ELSE NoCalls
    ELSE NoCalls

\* A client posts a body.
PostToolsCall ==
    \E json \in BodyShapes :
    \E name \in (IF json = "object" THEN BodyNames ELSE {Absent}),
       k \in (IF json = "object" THEN DOMAIN BodyArguments ELSE {1}) :
        /\ req.kind # "POST /tools/call" \/ resp # NoResponse
        /\ req' = HttpPostToolsCall(Body(json, name, BodyArguments[k]))
        /\ resp' = NoResponse
        /\ called' = NoCalls
        /\ UNCHANGED <<htmlVars, convVars, discVars>>
        /\ UNCHANGED <<raceVars, agentVars, sandboxVars, scenarioVars>>

\* The endpoint answers it; main.py 1773-1781 end the function.
ToolCallEndpoint ==
    /\ req.kind = "POST /tools/call"
    /\ resp = NoResponse
    /\ \E imaging \in ImagingLibraries, upstream \in UpstreamOutcomes :
        \E out \in {tool_call_endpoint(req.body, imaging, upstream)} :
            /\ called' = BridgeCalls(req.body, upstream)
            /\ IF out.kind = "load"
               THEN /\ load_widget_html(out.widget.component_name)
                    /\ resp' =
                        IF ret'.outcome = "FileNotFoundError"
                        THEN StatusResponse([error |-> ret'.msg], 500)
                        ELSE StatusResponse(out.response @@ [html |-> ret'.html], 200)
               ELSE /\ resp' = out
                    /\ ret' = NoCall
                    /\ UNCHANGED <<_html_cache, _html_mtimes, prev>>
    /\ UNCHANGED <<req, files, now, env>>
    /\ UNCHANGED <<convVars, discVars>>
    /\ UNCHANGED <<raceVars, agentVars, sandboxVars, scenarioVars>>

----------------------------------------------------------------------------
(* The chat simulator: main.py 1594-1677, agent_runner.py 84-93, 171-269.    *)
(* Each POST /chat is a coroutine of the event loop: one coroutine runs at a *)
(* time, and another runs only when the running one awaits.                  *)

TaskIds == 1..MaxTasks

\* The items of result.new_items: tool calls, of which raw_item may lack a
\* name, tool outputs, and everything else.
Item(type, has_name, name, output) ==
    [type |-> type, has_name |-> has_name, name |-> name, output |-> output]
ToolCallItem(name) == Item("ToolCallItem", TRUE, name, "")
NamelessToolCallItem == Item("ToolCallItem", FALSE, "", "")
ToolCallOutputItem(output) == Item("ToolCallOutputItem", FALSE, "", output)
MessageOutputItem == Item("MessageOutputItem", FALSE, "", "")

\* The item lists an agent run ends with.
ItemLists ==
    {<< >>,
     <<MessageOutputItem, ToolCallOutputItem("o1")>>,
     <<ToolCallItem("show_qr"), ToolCallOutputItem("o1"),
       ToolCallItem("geocode"), ToolCallOutputItem("o2")>>,
     <<ToolCallItem("show_qr"), ToolCallOutputItem("o1"),
       ToolCallItem("show_qr"), ToolCallOutputItem("o2")>>,
     <<ToolCallItem("show_qr"), ToolCallOutputItem("o1"),
       NamelessToolCallItem, ToolCallOutputItem("o2")>>,
     <<ToolCallItem("show_qr"), ToolCallOutputItem("o1"),
       ToolCallItem("show_map"), ToolCallOutputItem("o2")>>,
     <<ToolCallItem("completely_unknown_tool_that_does_not_exist"),
       ToolCallOutputItem("o1")>>}

\* agent_runner.py 218-242: a dict output gives its structuredContent.
ParseOutput(output) == <<"structuredContent", output>>

NoWidget == [none |-> TRUE]
WidgetResult(tool_name, html, tool_output, text_summary) ==
    [none |-> FALSE, tool_name |-> tool_name, html |-> html,
     tool_output |-> tool_output, text_summary |-> text_summary]

NoTask ==
    [pc |-> "idle", prompt |-> "", conversation_id |-> "",
     runner_input |-> << >>, seen |-> << >>,
     final_output |-> Null, new_items |-> << >>, i |-> 1,
     final_message |-> "", last_tool_name |-> "", widget_result |-> NoWidget,
     at |-> 0, response |-> NoResponse]

\* A request that has been answered: the coroutine's locals are gone.
Ended(pc, response) == [NoTask EXCEPT !.pc = pc, !.response = response]

\* The bodies POST /chat is given: a message or none, and a conversation id
\* that is absent, null, empty, a name or a number.
ChatMessages == {Absent, StrVal("hi")}
ChatIds == {Absent, Null, StrVal(""), StrVal("c1"), IntVal("7")}

\* main.py 1594-1598: ChatRequest.model_validate(body).
ChatRequestValid(message, conversation_id) ==
    message.t = "str" /\ conversation_id.t \in {"absent", "null", "str"}

\* main.py 1597, 1635: the default of the field, then `or "default"`.
ChatConversationId(conversation_id) ==
    LET field == BodyGet(conversation_id, StrVal("default"))
    IN  IF Falsy(field) THEN "default" ELSE field.v

\* Mutant of RunnerInput: the stored history is sent before the prompt.
RunnerInput_WithHistory(history, prompt) == history \o <<Message("user", prompt)>>

\* agent_runner.py 191: Runner.run(agent, prompt).
RunnerInput(history, prompt) == <<Message("user", prompt)>>

\* Mutant of Suspends: the coroutine awaits between its two add_message calls.
Suspends_BetweenAdds(pc) == pc \in {"await_run", "return", "add_user"}

\* The statements at which run_agent awaits: agent_runner.py 186, 189, 191.
Suspends(pc) == pc \in {"await_run", "return"}

\* Whether the event loop can run task t now.
Schedulable(t) == tasks.running \in {0, t}

\* The event loop after task t has executed the statement at pc.
Yield(t, pc) == IF Suspends(pc) THEN 0 ELSE t

HistoryOf(conversation_id) ==
    IF conversation_id \in DOMAIN conversations THEN conversations[conversation_id]
    ELSE << >>

\* main.py 1616-1636 and agent_runner.py 186-191: the body is validated, and
\* run_agent connects and calls the runner, which it awaits.
ChatEndpoint ==
    \E t \in TaskIds, message \in ChatMessages, conversation_id \in ChatIds :
        /\ Schedulable(t)
        /\ tasks.calls[t].pc = "idle"
        /\ LET id == ChatConversationId(conversation_id)
               call == NoTask
           IN  tasks' =
                IF ~ChatRequestValid(message, conversation_id)
                THEN [tasks EXCEPT !.running = 0,
                        !.calls[t] = Ended("done", StatusResponse(
                                [error |-> <<"Invalid request">>], 400))]
                ELSE [tasks EXCEPT !.running = Yield(t, "await_run"),
                        !.calls[t] = [call EXCEPT !.pc = "await_run",
                            !.prompt = message.v, !.conversation_id = id,
                            !.seen = HistoryOf(id),
                            !.runner_input = RunnerInput(HistoryOf(id), message.v)]]
        /\ UNCHANGED <<htmlVars, dispVars, convVars, discVars>>
        /\ UNCHANGED <<raceVars, sandboxVars, scenarioVars>>

\* The connection or the run raises: main.py 1657-1661 answer 500.
AgentFails ==
    \E t \in TaskIds :
        /\ Schedulable(t)
        /\ tasks.calls[t].pc = "await_run"
        /\ tasks' = [tasks EXCEPT !.running = 0,
                        !.calls[t] = Ended("failed",
                            StatusResponse([error |-> <<"Exception">>], 500))]
        /\ UNCHANGED <<htmlVars, dispVars, convVars, discVars>>
        /\ UNCHANGED <<raceVars, sandboxVars, scenarioVars>>

\* agent_runner.py 191-198: the run returns, and the loop begins.
AgentReturns ==
    \E t \in TaskIds, final_output \in {Null, StrVal("hello")}, new_items \in ItemLists :
        /\ Schedulable(t)
        /\ tasks.calls[t].pc = "await_run"
        /\ tasks' = [tasks EXCEPT !.running = t,
                        !.calls[t].pc = "extract",
                        !.calls[t].runner_input = << >>,
                        !.calls[t].seen = << >>,
                        !.calls[t].final_output = final_output,
                        !.calls[t].new_items = new_items,
                        !.calls[t].final_message =
                            IF Falsy(final_output) THEN "" ELSE final_output.v]
        /\ UNCHANGED <<htmlVars, dispVars, convVars, discVars>>
        /\ UNCHANGED <<raceVars, sandboxVars, scenarioVars>>

\* agent_runner.py 201-255, one item of the loop, with get_widget_html
\* (agent_runner.py 84-93), which catches ImportError only.
ExtractItem ==
    \E t \in TaskIds :
        LET call == tasks.calls[t]
            item == call.new_items[call.i]
            next == [call EXCEPT !.i = @ + 1]
            tool_name == call.last_tool_name
            widget == Lookup(WIDGETS_BY_ID, tool_name)
        IN  /\ Schedulable(t)
            /\ call.pc = "extract"
            /\ call.i <= Len(call.new_items)
            /\ IF item.type = "ToolCallOutputItem" /\ tool_name # "" /\ widget # None
               THEN /\ load_widget_html(widget.component_name)
                    /\ tasks' =
                        IF ret'.outcome = "FileNotFoundError"
                        THEN [tasks EXCEPT !.running = 0,
                                !.calls[t] = Ended("failed",
                                    StatusResponse([error |-> ret'.msg], 500))]
                        ELSE IF ret'.html # << >>
                        THEN [tasks EXCEPT !.running = t,
                                !.calls[t] = [next EXCEPT
                                    !.at = call.i,
                                    !.widget_result = WidgetResult(
                                        tool_name, ret'.html, ParseOutput(item.output),
                                        <<"Displaying ", tool_name>>)]]
                        ELSE [tasks EXCEPT !.running = t, !.calls[t] = next]
               ELSE /\ tasks' = [tasks EXCEPT !.running = t,
                        !.calls[t] =
                            IF item.type = "ToolCallItem" /\ item.has_name
                            THEN [next EXCEPT !.last_tool_name = item.name]
                            ELSE next]
                    /\ UNCHANGED <<_html_cache, _html_mtimes, prev, ret>>
            /\ UNCHANGED <<files, now, env>>
            /\ UNCHANGED <<dispVars, convVars, discVars>>
            /\ UNCHANGED <<raceVars, sandboxVars, scenarioVars>>

\* agent_runner.py 258: conversation_manager.add_message(id, "user", prompt)
AddUserMessage ==
    \E t \in TaskIds :
        LET call == tasks.calls[t]
        IN  /\ Schedulable(t)
            /\ call.pc = "extract"
            /\ call.i > Len(call.new_items)
            /\ conversations' =
                    add_message(conversations, call.conversation_id, "user", call.prompt)
            /\ appended' = [appended EXCEPT ![call.conversation_id] =
                                Append(@, Message("user", call.prompt))]
            /\ convRet' = [op |-> "add_message", id |-> call.conversation_id]
            /\ tasks' = [tasks EXCEPT !.running = Yield(t, "add_user"),
                            !.calls[t].pc = "add_assistant",
                            !.log = Append(@, [task |-> t, id |-> call.conversation_id,
                                                role |-> "user",
                                                content |-> call.prompt])]
            /\ UNCHANGED MAX_CONVERSATION_HISTORY
            /\ UNCHANGED <<htmlVars, dispVars, discVars>>
            /\ UNCHANGED <<raceVars, sandboxVars, scenarioVars>>

\* agent_runner.py 259: add_message(id, "assistant", final_message)
AddAssistantMessage ==
    \E t \in TaskIds :
        LET call == tasks.calls[t]
        IN  /\ Schedulable(t)
            /\ call.pc = "add_assistant"
            /\ conversations' =
                    add_message(conversations, call.conversation_id, "assistant",
                                call.final_message)
            /\ appended' = [appended EXCEPT ![call.conversation_id] =
                                Append(@, Message("assistant", call.final_message))]
            /\ convRet' = [op |-> "add_message", id |-> call.conversation_id]
            /\ tasks' = [tasks EXCEPT !.running = Yield(t, "return"),
                            !.calls[t].pc = "return",
                            !.log = Append(@, [task |-> t, id |-> call.conversation_id,
                                                role |-> "assistant",
                                                content |-> call.final_message])]
            /\ UNCHANGED MAX_CONVERSATION_HISTORY
            /\ UNCHANGED <<htmlVars, dispVars, discVars>>
            /\ UNCHANGED <<raceVars, sandboxVars, scenarioVars>>

\* agent_runner.py 261-264 and main.py 1638-1655: the response.
ReturnResponse ==
    \E t \in TaskIds :
        LET call == tasks.calls[t]
        IN  /\ Schedulable(t)
            /\ call.pc = "return"
            /\ tasks' = [tasks EXCEPT !.running = 0,
                            !.calls[t] = Ended("done", StatusResponse(
                                [message |-> call.final_message,
                                 widget |-> call.widget_result,
                                 conversation_id |-> call.conversation_id], 200))]
            /\ UNCHANGED <<htmlVars, dispVars, convVars, discVars>>
            /\ UNCHANGED <<raceVars, sandboxVars, scenarioVars>>

\* The bodies POST /chat/reset is given: no JSON, or an object.
ResetBodies ==
    {NotJson} \cup {[json |-> "object", conversation_id |-> c] : c \in ChatIds}

\* main.py 1666-1670: body.get("conversation_id", "default"), and "default"
\* when the body cannot be read.
ResetConversationId(body) ==
    IF body.json = "object" THEN BodyGet(body.conversation_id, StrVal("default"))
    ELSE StrVal("default")

\* agent_runner.py 267-269.  The keys of the store are strings: run_agent is
\* the one writer, and its id is a string.
clear_conversation(store, conversation_id) ==
    IF conversation_id.t = "str" THEN clear(store, conversation_id.v) ELSE store

\* main.py 1664-1677; convRet keeps the id the request resolved to.
ResetChatEndpoint ==
    \E body \in ResetBodies :
        LET conversation_id == ResetConversationId(body)
        IN  /\ tasks.running = 0
            /\ conversations' = clear_conversation(conversations, conversation_id)
            /\ appended' = [id \in ConversationIds |->
                                IF conversation_id = StrVal(id) THEN << >>
                                ELSE appended[id]]
            /\ convRet' = [op |-> "clear", id |-> conversation_id]
            /\ UNCHANGED MAX_CONVERSATION_HISTORY
            /\ UNCHANGED <<htmlVars, dispVars, discVars>>
            /\ UNCHANGED <<raceVars, agentVars, sandboxVars, scenarioVars>>

----------------------------------------------------------------------------
(* The sandbox proxy: main.py 1545-1561, 1860-1870.  The process imports     *)
(* main, and its ASGI server then hands events to app: the messages of a     *)
(* lifespan scope, HTTP requests, websocket connections.                     *)

NoSandbox ==
    [imported |-> FALSE, events |-> << >>, lifespan |-> "none",
     servers |-> 0, calls |-> 0, raised |-> FALSE]

\* main.py 1860-1870: HTTPServer binds the port, which fails with OSError when
\* a server of this process holds it; its daemon thread is never stopped.
start_sandbox_server(state) ==
    IF state.servers > 0
    THEN [state EXCEPT !.calls = @ + 1, !.raised = TRUE]
    ELSE [state EXCEPT !.calls = @ + 1, !.servers = @ + 1]

\* main.py 1545-1561: the wrapper starts the server when a lifespan scope
\* delivers lifespan.startup, and only passes every other event on.
app(state, type, message) ==
    IF type = "lifespan" /\ message = "lifespan.startup"
    THEN start_sandbox_server(state)
    ELSE state

Received(state, message) == [state EXCEPT !.events = Append(@, message)]

\* The module is imported: main.py runs no start at module level.
ImportMain ==
    /\ ~sandbox.imported
    /\ sandbox' = [sandbox EXCEPT !.imported = TRUE]
    /\ UNCHANGED <<htmlVars, dispVars, convVars, discVars>>
    /\ UNCHANGED <<raceVars, agentVars, scenarioVars>>

\* A lifespan scope opens and delivers lifespan.startup.
LifespanStartup ==
    /\ sandbox.imported
    /\ Len(sandbox.events) < MaxEvents
    /\ sandbox.lifespan # "started"
    /\ sandbox' = [Received(app(sandbox, "lifespan", "lifespan.startup"),
                            "lifespan.startup") EXCEPT !.lifespan = "started"]
    /\ UNCHANGED <<htmlVars, dispVars, convVars, discVars>>
    /\ UNCHANGED <<raceVars, agentVars, scenarioVars>>

\* The lifespan scope delivers lifespan.shutdown.
LifespanShutdown ==
    /\ sandbox.imported
    /\ Len(sandbox.events) < MaxEvents
    /\ sandbox.lifespan = "started"
    /\ sandbox' = [Received(app(sandbox, "lifespan", "lifespan.shutdown"),
                            "lifespan.shutdown") EXCEPT !.lifespan = "stopped"]
    /\ UNCHANGED <<htmlVars, dispVars, convVars, discVars>>
    /\ UNCHANGED <<raceVars, agentVars, scenarioVars>>

\* An HTTP request arrives, with or without a lifespan scope before it.
HttpRequest ==
    /\ sandbox.imported
    /\ Len(sandbox.events) < MaxEvents
    /\ sandbox' = Received(app(sandbox, "http", "http.request"), "http.request")
    /\ UNCHANGED <<htmlVars, dispVars, convVars, discVars>>
    /\ UNCHANGED <<raceVars, agentVars, scenarioVars>>

\* A websocket connection arrives.
WebsocketConnect ==
    /\ sandbox.imported
    /\ Len(sandbox.events) < MaxEvents
    /\ sandbox' = Received(app(sandbox, "websocket", "websocket.connect"),
                           "websocket.connect")
    /\ UNCHANGED <<htmlVars, dispVars, convVars, discVars>>
    /\ UNCHANGED <<raceVars, agentVars, scenarioVars>>

----------------------------------------------------------------------------
(* Floating-point arithmetic, and the scenario projection: main.py 728-760 *)

RECURSIVE BitLen(_)
BitLen(n) == IF n = 0 THEN 0 ELSE 1 + BitLen(n \div 2)

\* The number s * m * 2^e; m is 0 or has MantissaBits bits.
Float(s, m, e) == [s |-> s, m |-> m, e |-> e]
FZero == Float(1, 0, 0)

\* The float nearest to s * (n + t) * 2^e, where 0 <= t < 1 and t > 0 exactly
\* when sticky; with sticky, n has at least one bit more than a significand.
RoundBits(s, n, e, sticky) ==
    IF n = 0 THEN FZero
    ELSE LET L == BitLen(n)
         IN  IF L <= MantissaBits
             THEN Float(s, n * 2^(MantissaBits - L), e - (MantissaBits - L))
             ELSE LET shift == L - MantissaBits
                      q == n \div 2^shift
                      r == n % 2^shift
                      half == 2^(shift - 1)
                      up == r > half \/ (r = half /\ (sticky \/ q % 2 = 1))
                      m == IF up THEN q + 1 ELSE q
                  IN  IF m = 2^MantissaBits
                      THEN Float(s, 2^(MantissaBits - 1), e + shift + 1)
                      ELSE Float(s, m, e + shift)

\* float(n) of an integer, and the float n * 2^e.
FromInt(n) == RoundBits(IF n < 0 THEN -1 ELSE 1, IF n < 0 THEN -n ELSE n, 0, FALSE)
Scaled(n, e) == RoundBits(1, n, e, FALSE)

FNeg(a) == Float(-a.s, a.m, a.e)

FAdd(a, b) ==
    IF a.m = 0 THEN b
    ELSE IF b.m = 0 THEN a
    ELSE LET hi == IF a.e >= b.e THEN a ELSE b
             lo == IF a.e >= b.e THEN b ELSE a
             d == hi.e - lo.e
         IN  IF d > MantissaBits + 2
             THEN RoundBits(hi.s, IF hi.s = lo.s THEN hi.m * 4 ELSE hi.m * 4 - 1,
                            hi.e - 2, TRUE)
             ELSE LET n == hi.s * hi.m * 2^d + lo.s * lo.m
                  IN  RoundBits(IF n < 0 THEN -1 ELSE 1, IF n < 0 THEN -n ELSE n,
                                lo.e, FALSE)

FSub(a, b) == FAdd(a, FNeg(b))

FMul(a, b) ==
    IF a.m = 0 \/ b.m = 0 THEN FZero
    ELSE RoundBits(a.s * b.s, a.m * b.m, a.e + b.e, FALSE)

\* a / b for b # 0.
FDiv(a, b) ==
    IF a.m = 0 THEN FZero
    ELSE LET num == a.m * 2^(MantissaBits + 2)
         IN  RoundBits(a.s * b.s, num \div b.m, a.e - b.e - (MantissaBits + 2),
                       num % b.m # 0)

FSign(a) == IF a.m = 0 THEN 0 ELSE a.s
FLess(a, b) == FSign(FSub(a, b)) < 0

\* Natural numbers of any size, as their digits in base 1024, the lowest first.
RECURSIVE BigMul(_, _, _)
BigMul(big, k, carry) ==
    IF big = << >>
    THEN IF carry = 0 THEN << >>
         ELSE <<carry % 1024>> \o BigMul(<< >>, k, carry \div 1024)
    ELSE LET v == Head(big) * k + carry
         IN  <<v % 1024>> \o BigMul(Tail(big), k, v \div 1024)

RECURSIVE BigPow(_, _)
BigPow(m, n) == IF n = 0 THEN <<1>> ELSE BigMul(BigPow(m, n - 1), m, 0)

RECURSIVE BigValue(_)
BigValue(big) == IF big = << >> THEN 0 ELSE Head(big) + 1024 * BigValue(Tail(big))

BigBitLen(big) == 10 * (Len(big) - 1) + BitLen(big[Len(big)])

\* math.pow(x, n) for an integer n >= 1: the float nearest to the power.
FPow(x, n) ==
    IF x.m = 0 THEN FZero
    ELSE LET big == BigPow(x.m, n)
             L == BigBitLen(big)
             s == IF n % 2 = 1 THEN x.s ELSE 1
             sh == L - (MantissaBits + 2)
             rest == SubSeq(big, sh \div 10 + 1, Len(big))
             v == BigValue(rest)
         IN  IF sh <= 0 THEN RoundBits(s, BigValue(big), x.e * n, FALSE)
             ELSE RoundBits(s, v \div 2^(sh % 10), x.e * n + sh,
                            \/ v % 2^(sh % 10) # 0
                            \/ \E i \in 1..(sh \div 10) : big[i] # 0)

\* The arguments of _calculate_projections.
Inputs(starting_mrr, monthly_growth_rate, monthly_churn_rate, gross_margin, fixed_costs) ==
    [starting_mrr |-> starting_mrr, monthly_growth_rate |-> monthly_growth_rate,
     monthly_churn_rate |-> monthly_churn_rate, gross_margin |-> gross_margin,
     fixed_costs |-> fixed_costs]

\* Mutant of net_growth_rate: churn and growth change places.
net_growth_rate_Swapped(inputs) ==
    FDiv(FSub(inputs.monthly_churn_rate, inputs.monthly_growth_rate), FromInt(100))

\* main.py 732.
net_growth_rate(inputs) ==
    FDiv(FSub(inputs.monthly_growth_rate, inputs.monthly_churn_rate), FromInt(100))

\* main.py 736-738.
MrrOf(inputs, month) ==
    FMul(inputs.starting_mrr, FPow(FAdd(FromInt(1), net_growth_rate(inputs)), month))
GrossProfitOf(inputs, mrr) == FMul(mrr, FDiv(inputs.gross_margin, FromInt(100)))

\* sum() and +=: the terms added in order, from 0.
RECURSIVE FSum(_, _)
FSum(terms, k) == IF k = 0 THEN FZero ELSE FAdd(FSum(terms, k - 1), terms[k])

\* main.py 728-744.
_calculate_projections(inputs) ==
    LET mrr == [month \in 1..12 |-> MrrOf(inputs, month)]
    IN  [month \in 1..12 |->
            [month |-> month,
             mrr |-> mrr[month],
             grossProfit |-> GrossProfitOf(inputs, mrr[month]),
             netProfit |-> FSub(GrossProfitOf(inputs, mrr[month]), inputs.fixed_costs),
             cumulativeRevenue |-> FSum(mrr, month)]]

\* next(generator, 0): the first month of the list that passes, 0 at its end.
RECURSIVE FirstMonth(_, _)
FirstMonth(projections, k) ==
    IF k > Len(projections) THEN 0
    ELSE IF FSign(projections[k].netProfit) >= 0 THEN projections[k].month
    ELSE FirstMonth(projections, k + 1)

\* main.py 747-760.
_calculate_summary(projections, starting_mrr) ==
    LET ending_mrr == projections[12].mrr
        total_revenue == FSum([k \in 1..12 |-> projections[k].mrr], 12)
        total_profit == FSum([k \in 1..12 |-> projections[k].netProfit], 12)
    IN  IF starting_mrr.m = 0 THEN Raised("ZeroDivisionError")
        ELSE [kind |-> "summary",
              endingMRR |-> ending_mrr,
              arr |-> FMul(ending_mrr, FromInt(12)),
              totalRevenue |-> total_revenue,
              totalProfit |-> total_profit,
              mrrGrowthPct |-> FMul(FDiv(FSub(ending_mrr, starting_mrr), starting_mrr),
                                    FromInt(100)),
              avgMargin |-> IF total_revenue.m # 0
                            THEN FMul(FDiv(total_profit, total_revenue), FromInt(100))
                            ELSE FZero,
              breakEvenMonth |-> FirstMonth(projections, 1)]

\* The floats a caller passes: amounts of money, and rates in percent, of which
\* the last are far below one significand's last bit of 1.
StartingMrrs == {FromInt(0), FromInt(1), FromInt(50000), FromInt(100000)}
Rates == {FromInt(0), FromInt(1), FromInt(3), FromInt(5), Scaled(1, -2 * MantissaBits)}
Margins == {FromInt(80), FromInt(100)}
FixedCosts == {FromInt(0), FromInt(30000), FromInt(50000), FromInt(100000)}

NoScenario == [op |-> "none"]

CalculateProjections ==
    \E starting_mrr \in StartingMrrs, monthly_growth_rate \in Rates,
       monthly_churn_rate \in Rates, gross_margin \in Margins, fixed_costs \in FixedCosts :
        LET inputs == Inputs(starting_mrr, monthly_growth_rate, monthly_churn_rate,
                             gross_margin, fixed_costs)
        IN  /\ scenario = NoScenario
            /\ scenario' = [op |-> "_calculate_projections", inputs |-> inputs,
                            projections |-> _calculate_projections(inputs)]
            /\ UNCHANGED <<htmlVars, dispVars, convVars, discVars>>
            /\ UNCHANGED <<raceVars, agentVars, sandboxVars>>

CalculateSummary ==
    /\ scenario.op = "_calculate_projections"
    /\ scenario' = [op |-> "_calculate_summary", inputs |-> scenario.inputs,
                    projections |-> scenario.projections,
                    summary |-> _calculate_summary(scenario.projections,
                                                   scenario.inputs.starting_mrr)]
    /\ UNCHANGED <<htmlVars, dispVars, convVars, discVars>>
    /\ UNCHANGED <<raceVars, agentVars, sandboxVars>>

----------------------------------------------------------------------------
(* Concurrent calls of load_widget_html: main.py 112-139, statement by       *)
(* statement.  The event loop runs the function without suspending it; the   *)
(* interleavings here are those of threads, which include the event loop's.  *)

LoaderIds == 1..MaxLoaders

NoLoader ==
    [pc |-> "idle", component_name |-> << >>, html_path |-> << >>,
     current_mtime |-> 0, html |-> << >>, read |-> FALSE, ret |-> << >>]

\* Mutant of StoredHtml: the text is cached as read, before the rewrite.
StoredHtml_AsRead(l) == files[l.html_path].content

\* main.py 137: what a call stores in _html_cache.
StoredHtml(l) == l.html

\* A call load_widget_html(component_name) begins.
LoaderCall ==
    \E t \in LoaderIds :
        /\ loaders[t].pc = "idle"
        /\ \E c \in Components :
                loaders' = [loaders EXCEPT ![t] = [NoLoader EXCEPT !.pc = "resolve",
                                                                  !.component_name = c]]
        /\ UNCHANGED <<htmlVars, dispVars, convVars, discVars>>
        /\ UNCHANGED <<agentVars, sandboxVars, scenarioVars>>

\* main.py 123: html_path = _resolve_html_path(component_name)
LoaderResolve ==
    \E t \in LoaderIds :
        /\ loaders[t].pc = "resolve"
        /\ LET r == _resolve_html_path(loaders[t].component_name)
           IN  loaders' = [loaders EXCEPT ![t] =
                    IF r.found THEN [@ EXCEPT !.pc = "stat", !.html_path = r.path]
                    ELSE [@ EXCEPT !.pc = "FileNotFoundError"]]
        /\ UNCHANGED <<htmlVars, dispVars, convVars, discVars>>
        /\ UNCHANGED <<agentVars, sandboxVars, scenarioVars>>

\* main.py 124: current_mtime = html_path.stat().st_mtime
LoaderStat ==
    \E t \in LoaderIds :
        /\ loaders[t].pc = "stat"
        /\ LET l == loaders[t]
           IN  loaders' = [loaders EXCEPT ![t] =
                    [l EXCEPT !.pc = "check", !.current_mtime = files[l.html_path].mtime]]
        /\ UNCHANGED <<htmlVars, dispVars, convVars, discVars>>
        /\ UNCHANGED <<agentVars, sandboxVars, scenarioVars>>

\* main.py 126-127: the cache test, and the return of the entry.
LoaderCheck ==
    \E t \in LoaderIds :
        /\ loaders[t].pc = "check"
        /\ LET l == loaders[t]
           IN  loaders' = [loaders EXCEPT ![t] =
                    IF CacheValid(l.component_name, l.current_mtime)
                    THEN [l EXCEPT !.pc = "returned", !.ret = _html_cache[l.component_name]]
                    ELSE [l EXCEPT !.pc = "read"]]
        /\ UNCHANGED <<htmlVars, dispVars, convVars, discVars>>
        /\ UNCHANGED <<agentVars, sandboxVars, scenarioVars>>

\* main.py 129: html = html_path.read_text(encoding="utf8")
LoaderRead ==
    \E t \in LoaderIds :
        /\ loaders[t].pc = "read"
        /\ LET l == loaders[t]
           IN  loaders' = [loaders EXCEPT ![t] =
                    [l EXCEPT !.pc = "rewrite", !.read = TRUE,
                              !.html = files[l.html_path].content]]
        /\ UNCHANGED <<htmlVars, dispVars, convVars, discVars>>
        /\ UNCHANGED <<agentVars, sandboxVars, scenarioVars>>

\* main.py 133-135: base_url = get_base_url(), and the two replacements.
LoaderRewrite ==
    \E t \in LoaderIds :
        /\ loaders[t].pc = "rewrite"
        /\ LET l == loaders[t]
           IN  loaders' = [loaders EXCEPT ![t] =
                    [l EXCEPT !.pc = "store_html", !.html = RewriteHtml(l.html, get_base_url)]]
        /\ UNCHANGED <<htmlVars, dispVars, convVars, discVars>>
        /\ UNCHANGED <<agentVars, sandboxVars, scenarioVars>>

\* main.py 137: _html_cache[component_name] = html
LoaderStoreHtml ==
    \E t \in LoaderIds :
        /\ loaders[t].pc = "store_html"
        /\ _html_cache' = DictSet(_html_cache, loaders[t].component_name,
                                  StoredHtml(loaders[t]))
        /\ loaders' = [loaders EXCEPT ![t].pc = "store_mtime"]
        /\ UNCHANGED <<files, now, env, _html_mtimes, prev, ret>>
        /\ UNCHANGED <<dispVars, convVars, discVars>>
        /\ UNCHANGED <<agentVars, sandboxVars, scenarioVars>>

\* main.py 138: _html_mtimes[component_name] = current_mtime
LoaderStoreMtime ==
    \E t \in LoaderIds :
        /\ loaders[t].pc = "store_mtime"
        /\ _html_mtimes' = DictSet(_html_mtimes, loaders[t].component_name,
                                   loaders[t].current_mtime)
        /\ loaders' = [loaders EXCEPT ![t].pc = "return"]
        /\ UNCHANGED <<files, now, env, _html_cache, prev, ret>>
        /\ UNCHANGED <<dispVars, convVars, discVars>>
        /\ UNCHANGED <<agentVars, sandboxVars, scenarioVars>>

\* main.py 139: return html
LoaderReturn ==
    \E t \in LoaderIds :
        /\ loaders[t].pc = "return"
        /\ LET l == loaders[t]
           IN  loaders' = [loaders EXCEPT ![t] = [l EXCEPT !.pc = "returned", !.ret = l.html]]
        /\ UNCHANGED <<htmlVars, dispVars, convVars, discVars>>
        /\ UNCHANGED <<agentVars, sandboxVars, scenarioVars>>


----------------------------------------------------------------------------
(* Specifications *)

HtmlIdle ==
    /\ files = [f \in FileNames |-> NoFile]
    /\ now = 0
    /\ env = EmptyDict
    /\ _html_cache = EmptyDict
    /\ _html_mtimes = EmptyDict
    /\ prev = [c \in Components |-> NoPrev]
    /\ ret = NoCall

DispIdle ==
    /\ req = NoRequest
    /\ resp = NoResponse
    /\ called = NoCalls

\* The widgets package is not imported: main.py has its own registry.
DiscIdle ==
    /\ widgets = EmptyRegistries
    /\ discovery = [next |-> 1, status |-> "not imported",
                    faults |-> [i \in DOMAIN iter_modules |-> "none"]]

RaceIdle == loaders = [t \in LoaderIds |-> NoLoader]

\* No chat request, main not yet imported, no projection computed.
AgentIdle ==
    tasks = [running |-> 0, calls |-> [t \in TaskIds |-> NoTask], log |-> << >>]
SandboxIdle == sandbox = NoSandbox
ScenarioIdle == scenario = NoScenario

ConvIdle ==
    /\ conversations = EmptyDict
    /\ MAX_CONVERSATION_HISTORY = DefaultMaxHistory
    /\ appended = [id \in ConversationIds |-> << >>]
    /\ convRet = NoConvCall

\* The HTML asset loader over a changing assets directory.
InitHtml ==
    /\ HtmlIdle /\ DispIdle /\ ConvIdle /\ DiscIdle
    /\ RaceIdle /\ AgentIdle /\ SandboxIdle /\ ScenarioIdle

NextHtml ==
    \/ LoadWidgetHtml
    \/ _clear_html_cache
    \/ WriteFile
    \/ DeleteFile
    \/ Tick
    \/ SetBaseUrl
    \/ UnsetBaseUrl

SpecHtml == InitHtml /\ [][NextHtml]_vars

\* The call-tool dispatcher: a client writes a request, the dispatcher answers.
InitDispatch ==
    /\ HtmlIdle /\ DispIdle /\ ConvIdle /\ DiscIdle
    /\ RaceIdle /\ AgentIdle /\ SandboxIdle /\ ScenarioIdle

NextDispatch ==
    \/ ReceiveCallTool
    \/ GiveArguments
    \/ AddArgument
    \/ HandleCallTool

SpecDispatch == InitDispatch /\ [][NextDispatch]_vars

\* The read-resource handler over a changing assets directory.
InitResource ==
    /\ HtmlIdle /\ DispIdle /\ ConvIdle /\ DiscIdle
    /\ RaceIdle /\ AgentIdle /\ SandboxIdle /\ ScenarioIdle

NextResource ==
    \/ HandleReadResource
    \/ _clear_html_cache
    \/ WriteFile
    \/ DeleteFile
    \/ Tick
    \/ SetBaseUrl
    \/ UnsetBaseUrl

SpecResource == InitResource /\ [][NextResource]_vars

\* The protocol handlers side by side, the built assets absent as they are
\* before the first build: a client lists the tools, calls one, reads a
\* resource, while BASE_URL changes.
InitTools ==
    /\ HtmlIdle /\ DispIdle /\ ConvIdle /\ DiscIdle
    /\ RaceIdle /\ AgentIdle /\ SandboxIdle /\ ScenarioIdle

NextTools ==
    \/ ListTools
    \/ ToolsListEndpoint
    \/ ReceiveCallTool
    \/ GiveArguments
    \/ HandleCallTool
    \/ HandleReadResource
    \/ SetBaseUrl
    \/ UnsetBaseUrl

SpecTools == InitTools /\ [][NextTools]_vars

\* The import of the widgets package, with at most MaxFaults faulty modules.
InitDiscovery ==
    /\ HtmlIdle
    /\ DispIdle
    /\ ConvIdle
    /\ RaceIdle /\ AgentIdle /\ SandboxIdle /\ ScenarioIdle
    /\ widgets = EmptyRegistries
    /\ \E faulty \in SUBSET WidgetModules :
        \E kind \in [faulty -> Faults] :
            /\ Cardinality(faulty) <= MaxFaults
            /\ discovery =
                    [next |-> 1, status |-> "importing",
                     faults |-> [i \in DOMAIN iter_modules |->
                                    IF i \in faulty THEN kind[i] ELSE "none"]]

NextDiscovery ==
    \/ ImportModule
    \/ BuildWidgetsByUri

SpecDiscovery == InitDiscovery /\ [][NextDiscovery]_vars

\* The HTTP bridge to the dispatcher, over an assets directory that changes.
InitBridge ==
    /\ HtmlIdle /\ DispIdle /\ ConvIdle /\ DiscIdle
    /\ RaceIdle /\ AgentIdle /\ SandboxIdle /\ ScenarioIdle

NextBridge ==
    \/ PostToolsCall
    \/ ToolCallEndpoint
    \/ WriteFile
    \/ DeleteFile

SpecBridge == InitBridge /\ [][NextBridge]_vars

\* The chat simulator: the assets are built (qr.html is there) or not, and
\* stay as they are while the requests run.
InitChat ==
    /\ files \in {[f \in FileNames |-> NoFile],
                  [f \in FileNames |->
                        IF f = <<"q", "r", Ext>>
                        THEN [exists |-> TRUE, content |-> << <<"<html>B">>, RelSrc, RelHref >>,
                              mtime |-> 0]
                        ELSE NoFile]}
    /\ now = 0
    /\ env = EmptyDict
    /\ _html_cache = EmptyDict
    /\ _html_mtimes = EmptyDict
    /\ prev = [c \in Components |-> NoPrev]
    /\ ret = NoCall
    /\ DispIdle /\ ConvIdle /\ DiscIdle
    /\ RaceIdle /\ AgentIdle /\ SandboxIdle /\ ScenarioIdle

NextChat ==
    \/ ChatEndpoint
    \/ AgentFails
    \/ AgentReturns
    \/ ExtractItem
    \/ AddUserMessage
    \/ AddAssistantMessage
    \/ ReturnResponse
    \/ ResetChatEndpoint

SpecChat == InitChat /\ [][NextChat]_vars

\* The process from before its import of main.
InitSandbox ==
    /\ HtmlIdle /\ DispIdle /\ ConvIdle /\ DiscIdle
    /\ RaceIdle /\ AgentIdle /\ SandboxIdle /\ ScenarioIdle

NextSandbox ==
    \/ ImportMain
    \/ LifespanStartup
    \/ LifespanShutdown
    \/ HttpRequest
    \/ WebsocketConnect

SpecSandbox == InitSandbox /\ [][NextSandbox]_vars

\* The scenario projection, on each choice of its arguments.
InitScenario ==
    /\ HtmlIdle /\ DispIdle /\ ConvIdle /\ DiscIdle
    /\ RaceIdle /\ AgentIdle /\ SandboxIdle /\ ScenarioIdle

NextScenario ==
    \/ CalculateProjections
    \/ CalculateSummary

SpecScenario == InitScenario /\ [][NextScenario]_vars

\* Concurrent first loads: the assets directory is as a build left it (every
\* file absent or written at time 0), BASE_URL is set or not, the cache is
\* empty, and neither the files nor the environment change while the calls
\* run.
InitRace ==
    /\ files \in [FileNames ->
            {NoFile} \cup {[exists |-> TRUE, content |-> c, mtime |-> 0] : c \in Contents}]
    /\ now = 0
    /\ env \in {EmptyDict} \cup {DictSet(EmptyDict, "BASE_URL", u) : u \in BaseUrlValues}
    /\ _html_cache = EmptyDict
    /\ _html_mtimes = EmptyDict
    /\ prev = [c \in Components |-> NoPrev]
    /\ ret = NoCall
    /\ DispIdle /\ ConvIdle /\ DiscIdle
    /\ RaceIdle /\ AgentIdle /\ SandboxIdle /\ ScenarioIdle

NextRace ==
    \/ LoaderCall
    \/ LoaderResolve
    \/ LoaderStat
    \/ LoaderCheck
    \/ LoaderRead
    \/ LoaderRewrite
    \/ LoaderStoreHtml
    \/ LoaderStoreMtime
    \/ LoaderReturn

SpecRace == InitRace /\ [][NextRace]_vars

\* The conversation manager, under each configured maximum.
InitConv ==
    /\ HtmlIdle
    /\ DispIdle
    /\ DiscIdle
    /\ RaceIdle /\ AgentIdle /\ SandboxIdle /\ ScenarioIdle
    /\ conversations = EmptyDict
    /\ MAX_CONVERSATION_HISTORY \in 0..MaxHistory
    /\ appended = [id \in ConversationIds |-> << >>]
    /\ convRet = NoConvCall

NextConv ==
    \/ GetHistory
    \/ AddMessage
    \/ Clear

SpecConv == InitConv /\ [][NextConv]_vars


----------------------------------------------------------------------------
(* Claims about the HTML asset loader, checked under SpecHtml *)

BaseUrls == {RStrip(u) : u \in BaseUrlValues \cup {_DEFAULT_BASE_URL}}

\* html is what the loader makes of content under some base URL.
DerivedFrom(html, content) ==
    \E b \in BaseUrls : html = RewriteHtml(content, b)

LoadSucceeded == ret.op = "load" /\ ret.outcome \in {"hit", "miss"}

\* The step is a call load_widget_html(c).
IsLoadOf(c) == ret'.op = "load" /\ ret'.name = c

\* C1 as stated: a load, then a modification of the underlying file, then a
\* load again with no cache clear in between: the second load returns the HTML
\* derived from the file's new content.
C1_ModifiedThenFresh ==
    (LoadSucceeded /\ ret.was.loaded /\ ret.was.dirty)
        => DerivedFrom(ret.html, files[ret.path].content)

\* C1 amended: when the file was modified after a load and its modification
\* time now differs from the one the cache recorded, the next load (no cache
\* clear in between) reads the file again, returns the HTML derived from its
\* new content and records that HTML and the new mtime.
C1_MtimeInvalidation ==
    [][\A c \in Components :
        LET r == _resolve_html_path(c)
        IN  (/\ IsLoadOf(c)
             /\ r.found
             /\ prev[c].loaded /\ prev[c].dirty
             /\ c \in DOMAIN _html_mtimes
             /\ _html_mtimes[c] # files[r.path].mtime)
            => /\ ret'.read
               /\ ret'.html = RewriteHtml(files[r.path].content, get_base_url)
               /\ _html_cache'[c] = ret'.html
               /\ _html_mtimes'[c] = files[r.path].mtime]_vars

\* Witness of C1: a load after a modification returned something else than the
\* load before it.
C1_Witness ==
    /\ LoadSucceeded /\ ret.read
    /\ ret.was.loaded /\ ret.was.dirty
    /\ ret.html # ret.was.html

\* C2: a load that follows a load of the same component, with no modification
\* of its files (and no cache clear) in between, returns what the first load
\* returned, does not read the file, and leaves both cache dictionaries as
\* they were.
C2_CacheHit ==
    [][\A c \in Components :
        (IsLoadOf(c) /\ prev[c].loaded /\ ~prev[c].dirty)
            => /\ ret'.outcome = "hit"
               /\ ~ret'.read
               /\ ret'.html = prev[c].html
               /\ _html_cache' = _html_cache
               /\ _html_mtimes' = _html_mtimes]_vars

\* Witness of C2: a load served from the cache right after an unmodified load,
\* of a document whose references were rewritten.
C2_Witness ==
    /\ ret.op = "load" /\ ret.outcome = "hit"
    /\ ret.was.loaded /\ ~ret.was.dirty
    /\ ret.html = ret.was.html
    /\ ret.html # files[ret.path].content

\* The path C3 says a component resolves to: the exact file if it exists, else
\* the lexicographically last of the files matching <name>-*.html.
C3_Expected(c) ==
    IF files[c \o <<Ext>>].exists
    THEN c \o <<Ext>>
    ELSE CHOOSE f \in FileNames :
            /\ files[f].exists /\ GlobMatch(c, f)
            /\ \A g \in FileNames :
                (files[g].exists /\ GlobMatch(c, g)) => ~StrLess(f, g)

\* C3 as stated: every successful load resolves the component to the expected
\* path and returns the HTML derived from the content of exactly that file.
C3_ReturnsResolvedContent ==
    LoadSucceeded
        => /\ ret.path = C3_Expected(ret.name)
           /\ DerivedFrom(ret.html, files[ret.path].content)

\* C3 amended: every successful load resolves the component to the expected
\* path; when it reads (no cache entry with that file's mtime) it returns the
\* HTML derived from the content of exactly that file, and otherwise the
\* cached HTML.
C3_ResolutionOrder ==
    LoadSucceeded
        => /\ ret.path = C3_Expected(ret.name)
           /\ ret.read => ret.html = RewriteHtml(files[ret.path].content, get_base_url)
           /\ ~ret.read => ret.html = _html_cache[ret.name]

\* Witness of C3: the exact file and both content-hashed builds exist, or only
\* the two builds: the load read the expected one.
C3_Witness ==
    /\ LoadSucceeded /\ ret.read
    /\ \A f \in FileNames : GlobMatch(ret.name, f) => files[f].exists
    /\ ~files[ret.name \o <<Ext>>].exists
    /\ ret.path = <<"q", "r", "-", "b", Ext>>

\* Witness of C3, the other case: the exact file wins over the builds.
C3_WitnessExact ==
    /\ LoadSucceeded /\ ret.read
    /\ \A f \in FileNames : files[f].exists
    /\ ret.path = ret.name \o <<Ext>>

\* Neither <name>.html nor any <name>-*.html exists.
NoAssetFor(c) == \A f \in FileNames : Concerns(c, f) => ~files[f].exists

\* The message has text as one of its parts.
Names(msg, text) == \E i \in 1..Len(msg) : msg[i] = text

\* C4: a load of a component with no asset file fails with a FileNotFoundError
\* whose message names the component and the assets directory, whether or not
\* the component is cached, and leaves both cache dictionaries as they were.
C4_MissingAsset ==
    [][\A c \in Components :
        (IsLoadOf(c) /\ NoAssetFor(c))
            => /\ ret'.outcome = "FileNotFoundError"
               /\ Names(ret'.msg, c)
               /\ Names(ret'.msg, <<ASSETS_DIR>>)
               /\ _html_cache' = _html_cache
               /\ _html_mtimes' = _html_mtimes]_vars

\* Witness of C4: the load failed while the component was cached.
C4_Witness ==
    /\ ret.op = "load" /\ ret.outcome = "FileNotFoundError"
    /\ NoAssetFor(ret.name)
    /\ ret.name \in DOMAIN _html_cache

----------------------------------------------------------------------------
(* Claims about the call-tool dispatcher, checked under SpecDispatch *)

WidgetIds == {WIDGETS[i].identifier : i \in DOMAIN WIDGETS}

Answered == req.kind = "CallToolRequest" /\ resp # NoResponse

FirstText == resp.content[1].text

\* C5: a call of a tool name that is neither a data-only tool nor a widget
\* identifier is answered, not raised, by a result with isError set whose
\* first content item's text contains "Unknown tool", whatever the arguments
\* (none included).
C5_UnknownTool ==
    (Answered /\ req.name \notin DataOnlyTools \cup WidgetIds)
        => /\ resp.kind = "CallToolResult"
           /\ resp.isError
           /\ Len(resp.content) >= 1
           /\ resp.content[1].type = "text"
           /\ "Unknown tool" \in Range(FirstText)

C5_Witness ==
    /\ Answered
    /\ req.name = "completely_unknown_tool_that_does_not_exist"
    /\ req.arguments # None
    /\ Len(req.arguments.items) = MaxArgs
    /\ resp.kind = "CallToolResult"
    /\ resp.isError

\* C7: a call of a registered widget's identifier with no arguments (None or
\* an empty mapping) is answered by a result that is not an error and whose
\* structuredContent is present and has at least one key.
C7_NoArguments ==
    (/\ Answered
     /\ req.name \in WidgetIds
     /\ (req.arguments = None \/ req.arguments.items = << >>))
        => /\ resp.kind = "CallToolResult"
           /\ ~resp.isError
           /\ resp.has_structuredContent
           /\ DOMAIN resp.structuredContent # {}

C7_Witness ==
    /\ Answered
    /\ req.name = "show_qr"
    /\ req.arguments = None
    /\ resp.kind = "CallToolResult"
    /\ ~resp.isError
    /\ "imageData" \in DOMAIN resp.structuredContent

UndeclaredKeys ==
    Keys(req.arguments.items) \ DeclaredKeys(WIDGET_INPUT_MODELS[req.name])

\* C8: a call of a registered widget with a mapping holding a key that is
\* neither a field nor an alias of its input model is answered, not raised, by
\* a result with isError set, without structuredContent, whose text names each
\* such key and every field name of the input model.
C8_UnknownField ==
    (/\ Answered
     /\ req.name \in WidgetIds
     /\ req.arguments # None
     /\ UndeclaredKeys # {})
        => /\ resp.kind = "CallToolResult"
           /\ resp.isError
           /\ ~resp.has_structuredContent
           /\ UndeclaredKeys \subseteq Range(FirstText)
           /\ \A i \in DOMAIN WIDGET_INPUT_MODELS[req.name] :
                WIDGET_INPUT_MODELS[req.name][i].name \in Range(FirstText)

C8_Witness ==
    /\ Answered
    /\ req.name = "show_card"
    /\ req.arguments # None
    /\ Keys(req.arguments.items) = {"accentColor", UnknownKey}
    /\ resp.kind = "CallToolResult"
    /\ resp.isError
    /\ UnknownKey \in Range(FirstText)
    /\ "accent_color" \in Range(FirstText)

----------------------------------------------------------------------------
(* Claims about the read-resource handler, checked under SpecResource *)

\* C6: a read of a URI that is not the template URI of a registered widget is
\* answered, not raised, by a result with no content item and an error note,
\* and the step that answers it leaves the HTML cache as it was.
C6_UnknownResource ==
    [][(req'.kind = "ReadResourceRequest" /\ req'.uri \notin DOMAIN WIDGETS_BY_URI)
        => /\ resp'.kind = "ReadResourceResult"
           /\ resp'.contents = << >>
           /\ resp'.has_meta
           /\ "error" \in DOMAIN resp'.meta
           /\ (<<req, resp>>' # <<req, resp>>
                => UNCHANGED <<_html_cache, _html_mtimes>>)]_vars

C6_Witness ==
    /\ req.kind = "ReadResourceRequest"
    /\ req.uri = "ui://widget/unknown_widget.html"
    /\ resp.kind = "ReadResourceResult"
    /\ resp.contents = << >>
    /\ DOMAIN _html_cache # {}

----------------------------------------------------------------------------
(* Claims about the conversation history, checked under SpecConv *)

\* C9: whatever the configured maximum and the operations made, the history
\* stored for a conversation id never has more entries than the maximum.
C9_HistoryBound ==
    \A id \in DOMAIN conversations :
        Len(conversations[id]) <= MAX_CONVERSATION_HISTORY

\* C10: the history stored for a conversation id is the most recent min(k, N)
\* of the k messages added since its last clear, in the order they were added.
C10_MostRecentKept ==
    \A id \in DOMAIN conversations :
        LET k == Len(appended[id])
            n == Min(k, MAX_CONVERSATION_HISTORY)
        IN  conversations[id] = SubSeq(appended[id], k - n + 1, k)


----------------------------------------------------------------------------
(* Claims about the dispatch order, checked under SpecDispatch *)

\* The handler tables of the dispatcher: the data-only handlers, and the
\* widget handlers by widget identifier.
DataOnlyHandlerOf ==
    [poll_system_stats |-> "handle_poll_system_stats", geocode |-> "handle_geocode"]

WidgetHandlerOf ==
    [show_card |-> "handle_card", show_carousel |-> "handle_carousel",
     show_list |-> "handle_list", show_gallery |-> "handle_gallery",
     show_dashboard |-> "handle_dashboard",
     show_solar_system |-> "handle_solar_system", show_todo |-> "handle_todo",
     show_shop |-> "handle_shop", show_qr |-> "handle_qr",
     get_scenario_data |-> "handle_scenario_modeler",
     get_system_info |-> "handle_system_info", show_map |-> "handle_show_map"]

\* The data-only table first, the widget table second.
MatchedHandler(name) ==
    IF name \in DOMAIN DataOnlyHandlerOf THEN DataOnlyHandlerOf[name]
    ELSE IF name \in DOMAIN WidgetHandlerOf THEN WidgetHandlerOf[name]
    ELSE "none"

ArgumentsOf(request) ==
    IF request.arguments = None THEN << >> ELSE request.arguments.items

\* C12: call tool consults the data-only handlers first and the widget
\* handlers second; for every matched name exactly one handler is invoked, the
\* matched one, and what the caller receives is that handler's result,
\* unmodified.  An unmatched name invokes no handler.
C12_DispatchOrder ==
    Answered =>
        LET matched == MatchedHandler(req.name)
        IN  IF matched = "none" THEN called.handlers = << >>
            ELSE /\ called.handlers = <<matched>>
                 /\ \E imaging \in ImagingLibraries, upstream \in UpstreamOutcomes :
                        /\ called.outbound \in {<< >>, <<upstream>>}
                        /\ resp = Invoke(matched, Lookup(WIDGETS_BY_ID, req.name),
                                         ArgumentsOf(req), imaging, upstream)

\* A data-only name was served, by its data-only handler.
C12_Witness ==
    /\ Answered
    /\ req.name = "geocode"
    /\ called.handlers = <<"handle_geocode">>
    /\ resp = handle_geocode(ArgumentsOf(req), "results")

\* The fields the widgets package declares as enumerations
\* (widgets/carousel.py 43, widgets/gallery.py 42, widgets/solar_system.py 41),
\* by tool name.
ClosedSets ==
    [show_carousel |->
        [field |-> "category",
         values |-> {"restaurants", "hotels", "products", "attractions"}],
     show_gallery |->
        [field |-> "category",
         values |-> {"nature", "architecture", "portraits", "travel"}],
     show_solar_system |->
        [field |-> "planet_name",
         values |-> {"Mercury", "Venus", "Earth", "Mars", "Jupiter", "Saturn",
                     "Uranus", "Neptune"}]]

\* The request gives an enumerated field a string outside its closed set.
OutsideClosedSet ==
    /\ req.name \in DOMAIN ClosedSets
    /\ req.arguments # None
    /\ \E i \in DOMAIN req.arguments.items :
            /\ req.arguments.items[i][1] = ClosedSets[req.name].field
            /\ req.arguments.items[i][2].t = "str"
            /\ req.arguments.items[i][2].v \notin ClosedSets[req.name].values

\* C19: calling the tool of a widget with an enumerated field (carousel
\* category, gallery category, solar-system planet_name) with a value outside
\* the closed set yields a validation error result, not a successful one.
C19_EnumeratedFields ==
    (Answered /\ OutsideClosedSet) => (resp.kind = "CallToolResult" /\ resp.isError)

\* The outbound geocoding call of the answered request failed.
UpstreamFailed ==
    /\ Answered
    /\ req.name = "geocode"
    /\ \E i \in DOMAIN called.outbound : called.outbound[i] = "error"

\* C20: when the outbound geocoding call fails, the geocode tool has made
\* exactly one outbound attempt, and the caller of call tool receives an
\* error (the exception of the failed call), never a successful result.
C20_GeocodeFailure ==
    /\ UpstreamFailed =>
            /\ Len(called.outbound) = 1
            /\ called.handlers = <<"handle_geocode">>
            /\ resp.kind = "raised"
            /\ resp.kind # "CallToolResult"
    /\ (Answered /\ req.name = "geocode") => Len(called.outbound) <= 1

\* A valid geocode request whose outbound call failed.
C20_Witness ==
    /\ UpstreamFailed
    /\ req.arguments # None
    /\ model_validate(GeocodeInput, req.arguments.items).ok
    /\ resp = Raised("HTTPError")

----------------------------------------------------------------------------
(* Claims about the tool listings, checked under SpecTools *)

Listed == resp.kind = "ListToolsResult"

DeclaredNames == {resp.tools[i].name : i \in DOMAIN resp.tools}

\* The names call tool accepts: those it does not answer with "Unknown tool".
Accepted ==
    {n \in ToolNames :
        \E imaging \in ImagingLibraries, upstream \in UpstreamOutcomes :
            handle_call_tool(CallToolRequest(n, Mapping(<< >>)), imaging, upstream)
                # UnknownTool(n)}

\* C11: list tools declares every registered widget and every data-only tool
\* call tool dispatches (poll_system_stats and geocode), so that every name
\* call tool accepts is declared; the declarations of the data-only tools
\* carry no UI metadata.
C11_ListingComplete ==
    Listed =>
        /\ WidgetIds \subseteq DeclaredNames
        /\ DataOnlyTools \subseteq DeclaredNames
        /\ Accepted \subseteq DeclaredNames
        /\ \A i \in DOMAIN resp.tools :
                resp.tools[i].name \notin WidgetIds => ~resp.tools[i].has_meta

HttpToolNames ==
    [i \in DOMAIN resp.body.tools |-> resp.body.tools[i].function.name]

\* The tools list_tools declares that are no widgets.
HelperTools ==
    {list_tools[i].name : i \in DOMAIN list_tools} \ DOMAIN WIDGETS_BY_ID

\* C13: GET /tools returns exactly one entry per registered widget and
\* nothing else, so no data-only tool (poll_system_stats, geocode) is in it;
\* and every tool list_tools declares that is not a widget, called through
\* call tool with empty arguments, is answered with a result that is no error.
C13_HttpToolsWidgetsOnly ==
    /\ resp.kind = "JSONResponse" =>
            /\ Len(HttpToolNames) = Len(WIDGETS)
            /\ \A i \in DOMAIN WIDGETS : HttpToolNames[i] = WIDGETS[i].identifier
            /\ \A i \in DOMAIN HttpToolNames : HttpToolNames[i] \notin DataOnlyTools
    /\ (Answered /\ req.name \in HelperTools /\ req.arguments = Mapping(<< >>)) =>
            resp.kind = "CallToolResult" /\ ~resp.isError

\* GET /tools was answered, while list_tools declares a helper tool.
C13_Witness ==
    /\ req = HttpGetTools
    /\ resp.kind = "JSONResponse"
    /\ Len(resp.body.tools) = 12
    /\ "poll_system_stats" \in HelperTools


AssetsAbsent == \A f \in FileNames : ~files[f].exists

\* C15: when the built HTML assets are absent, the server answers list tools
\* without crashing, and with no widget tool: it does not advertise widgets
\* whose HTML cannot be served.
C15_EmptyToolSetWithoutAssets ==
    (Listed /\ AssetsAbsent) =>
        \A i \in DOMAIN resp.tools : resp.tools[i].name \notin WidgetIds

\* The step that answered a call-tool or list-tools request.
AnswersRequest == resp' # resp /\ resp'.kind \in {"CallToolResult", "ListToolsResult"}

\* The resourceDomains lists of the widget metadata of an answer: those of
\* the declarations of a listing, that of a widget result.
ResourceDomainsOf(answer) ==
    IF answer.kind = "ListToolsResult"
    THEN {answer.tools[i].meta.ui.csp.resourceDomains :
            i \in {j \in DOMAIN answer.tools : answer.tools[j].has_meta}}
    ELSE IF answer.has_meta THEN {answer.meta.ui.csp.resourceDomains}
    ELSE {}

\* The origin of a base URL value, as the environment gives it.
OriginOf(environment) ==
    IF "BASE_URL" \in DOMAIN environment THEN environment["BASE_URL"][1]
    ELSE _DEFAULT_BASE_URL[1]

\* C17: for every widget and every value of BASE_URL, the resourceDomains
\* list of the widget's tool metadata (list tools) and of its invocation
\* metadata (call tool) contains the server origin computed from the BASE_URL
\* in force at the time of the call; a listing carries it for every widget.
C17_CspHasOrigin ==
    [][AnswersRequest =>
        /\ \A domains \in ResourceDomainsOf(resp') :
                \E i \in DOMAIN domains : domains[i] = OriginOf(env')
        /\ resp'.kind = "ListToolsResult" =>
                \A w \in WidgetIds :
                    \E i \in DOMAIN resp'.tools :
                        resp'.tools[i].name = w /\ resp'.tools[i].has_meta
        /\ (resp'.kind = "CallToolResult" /\ req'.name \in WidgetIds /\ ~resp'.isError) =>
                resp'.has_meta]_vars

\* A widget was invoked under a BASE_URL set in the environment, and its
\* metadata names that origin.
C17_Witness ==
    /\ Answered
    /\ req.name = "show_card"
    /\ resp.kind = "CallToolResult"
    /\ resp.has_meta
    /\ "BASE_URL" \in DOMAIN env
    /\ resp.meta.ui.csp.resourceDomains[1] = "https://cdn.example.com"


----------------------------------------------------------------------------
(* Claims about widget discovery, checked under SpecDiscovery *)

DiscoveryEnded == discovery.status \in {"imported", "ImportError", "AttributeError"}

\* The modules with a widget and no fault.
SoundModules ==
    {i \in WidgetModules :
        iter_modules[i].WIDGET # None /\ discovery.faults[i] = "none"}

RegisteredEverywhere(mod) ==
    LET id == mod.WIDGET.identifier
    IN  /\ \E i \in DOMAIN widgets.WIDGETS : widgets.WIDGETS[i] = mod.WIDGET
        /\ id \in DOMAIN widgets.WIDGETS_BY_ID
        /\ id \in DOMAIN widgets.WIDGET_HANDLERS
        /\ mod.INPUT_MODEL => id \in DOMAIN widgets.WIDGET_INPUT_MODELS

\* C14: if importing or registering one widget module fails, every other
\* widget module is still registered in WIDGETS, WIDGETS_BY_ID,
\* WIDGET_HANDLERS and WIDGET_INPUT_MODELS once discovery has ended.
C14_FaultIsolation ==
    DiscoveryEnded =>
        \A i \in SoundModules : RegisteredEverywhere(iter_modules[i])

\* No two elements of a registry list share an identifier or a template URI.
Distinct(list) ==
    \A i, j \in DOMAIN list :
        i # j => /\ list[i].identifier # list[j].identifier
                 /\ list[i].template_uri # list[j].template_uri

Identifiers(list) == [i \in DOMAIN list |-> list[i].identifier]
TemplateUris(list) == [i \in DOMAIN list |-> list[i].template_uri]

\* An index holds exactly one entry per element of the list, each under the
\* element's key.
OnePerWidget(index, list, key) ==
    /\ Cardinality(DOMAIN index) = Len(list)
    /\ \A i \in DOMAIN list : key[i] \in DOMAIN index /\ index[key[i]] = list[i]

\* C18: no two widgets of the registry share an identifier, no two share a
\* template URI, and WIDGETS_BY_ID and WIDGETS_BY_URI hold exactly one entry
\* per element of WIDGETS: in main.py's registry, and in the registry the
\* widgets package builds (its WIDGETS_BY_ID at every iteration of the
\* discovery loop, its WIDGETS_BY_URI once the package is imported).
C18_IdentityUnique ==
    /\ Distinct(WIDGETS)
    /\ OnePerWidget(WIDGETS_BY_ID, WIDGETS, Identifiers(WIDGETS))
    /\ OnePerWidget(WIDGETS_BY_URI, WIDGETS, TemplateUris(WIDGETS))
    /\ Distinct(widgets.WIDGETS)
    /\ OnePerWidget(widgets.WIDGETS_BY_ID, widgets.WIDGETS, Identifiers(widgets.WIDGETS))
    /\ discovery.status = "imported" =>
            OnePerWidget(widgets.WIDGETS_BY_URI, widgets.WIDGETS,
                         TemplateUris(widgets.WIDGETS))

\* The package is imported, all its widgets registered.
C18_Witness ==
    /\ discovery.status = "imported"
    /\ Len(widgets.WIDGETS) = Len(WIDGETS)
    /\ Cardinality(DOMAIN widgets.WIDGETS_BY_URI) = 12


----------------------------------------------------------------------------
(* Claims about reading a widget's resource, checked under SpecResource *)

\* The step reads the resource of a registered widget.
ReadsKnown ==
    /\ req'.kind = "ReadResourceRequest"
    /\ req'.uri \in DOMAIN WIDGETS_BY_URI
    /\ ret'.op = "load"

\* The metadata block of the tool declaration list_tools gives a widget.
DeclaredMeta(widget) ==
    LET tools == list_tools
    IN  tools[CHOOSE i \in DOMAIN tools : tools[i].name = widget.identifier].meta

\* The answer is one content item: the widget's HTML as load_widget_html gave
\* it, under the MCP App MIME type, with the metadata of the declaration.
Served(widget) ==
    /\ resp'.kind = "ReadResourceResult"
    /\ Len(resp'.contents) = 1
    /\ ret'.name = widget.component_name
    /\ ret'.outcome \in {"hit", "miss"}
    /\ resp'.contents[1].text = ret'.html
    /\ ret'.read =>
            resp'.contents[1].text =
                RewriteHtml(files[C3_Expected(widget.component_name)].content,
                            get_base_url)
    /\ resp'.contents[1].uri = widget.template_uri
    /\ resp'.contents[1].mimeType = "text/html;profile=mcp-app"
    /\ resp'.contents[1].meta = DeclaredMeta(widget)
    /\ resp'.contents[1].meta.ui.resourceUri = widget.template_uri
    /\ resp'.contents[1].meta.ui.csp = get_csp_domains

----------------------------------------------------------------------------
(* Claims about the HTML cache and BASE_URL, checked under SpecHtml *)

\* The cache holds an entry of c recorded under the mtime the file of c has.
EntryCurrent(c) ==
    LET r == _resolve_html_path(c)
    IN  /\ r.found
        /\ c \in DOMAIN _html_cache
        /\ c \in DOMAIN _html_mtimes
        /\ _html_mtimes[c] = files[r.path].mtime

\* C25: the HTML cache is keyed by component name only.  A change of BASE_URL
\* leaves the cache as it is; a load that finds an entry under the file's
\* mtime returns that entry, whatever BASE_URL is now; an entry is the file
\* rewritten with the base URL in force when the load that created it ran;
\* and get_csp_domains reports the origin of the current BASE_URL at every
\* call.
C25_CacheKeyedByName ==
    [][/\ env' # env => UNCHANGED <<_html_cache, _html_mtimes>>
       /\ \A c \in Components :
            /\ (IsLoadOf(c) /\ EntryCurrent(c))
                    => /\ ret'.html = _html_cache[c]
                       /\ ~ret'.read
                       /\ UNCHANGED <<_html_cache, _html_mtimes>>
            /\ (IsLoadOf(c) /\ ret'.read)
                    => _html_cache'[c] =
                          RewriteHtml(files[_resolve_html_path(c).path].content,
                                      get_base_url)
       /\ get_csp_domains'.resourceDomains[1] = OriginOf(env')]_vars

\* BASE_URL was set after the entry was created under the default: the load
\* returned the HTML rewritten with the default base URL, which is not what
\* the current one gives, while the CSP names the new origin.
C25_Witness ==
    /\ ret.op = "load" /\ ret.outcome = "hit"
    /\ "BASE_URL" \in DOMAIN env
    /\ ret.html = RewriteHtml(files[ret.path].content, RStrip(_DEFAULT_BASE_URL))
    /\ ret.html # RewriteHtml(files[ret.path].content, get_base_url)
    /\ get_csp_domains.resourceDomains[1] = "https://cdn.example.com"


----------------------------------------------------------------------------
(* Claims about the registry tables, checked under SpecDiscovery *)

\* The identifiers the dispatcher of main.py has a handler branch for.
HandledIds == {id \in ToolNames \ DataOnlyTools : Route(id) \in Handlers}

UrisOf(list) == {list[i].template_uri : i \in DOMAIN list}

AnswersNoHandler(id) ==
    \E imaging \in ImagingLibraries, upstream \in UpstreamOutcomes :
        LET answer == handle_call_tool(CallToolRequest(id, None), imaging, upstream)
        IN  /\ answer.kind = "CallToolResult"
            /\ answer.content[1].text[1] = "No handler for"

\* C23: every widget identifier present in one registry table (descriptor by
\* id, handler, input model) is present in the others, and its descriptor is
\* reachable by its template URI; the data-only tool names are in none of the
\* widget tables; and call tool never answers "No handler for" for a
\* registered widget identifier.  So it is of the tables of main.py, and of
\* the tables of the widgets package once it is imported.
C23_RegistryConsistency ==
    /\ DOMAIN WIDGETS_BY_ID = DOMAIN WIDGET_INPUT_MODELS
    /\ DOMAIN WIDGETS_BY_ID = HandledIds
    /\ \A id \in DOMAIN WIDGETS_BY_ID :
            /\ WIDGETS_BY_ID[id].template_uri \in DOMAIN WIDGETS_BY_URI
            /\ WIDGETS_BY_URI[WIDGETS_BY_ID[id].template_uri] = WIDGETS_BY_ID[id]
            /\ ~AnswersNoHandler(id)
    /\ DataOnlyTools \cap (DOMAIN WIDGETS_BY_ID \cup DOMAIN WIDGET_INPUT_MODELS
                             \cup HandledIds) = {}
    /\ discovery.status = "imported" =>
            /\ DOMAIN widgets.WIDGETS_BY_ID = DOMAIN widgets.WIDGET_HANDLERS
            /\ DOMAIN widgets.WIDGETS_BY_ID = DOMAIN widgets.WIDGET_INPUT_MODELS
            /\ \A id \in DOMAIN widgets.WIDGETS_BY_ID :
                    LET w == widgets.WIDGETS_BY_ID[id]
                    IN  /\ w.template_uri \in DOMAIN widgets.WIDGETS_BY_URI
                        /\ widgets.WIDGETS_BY_URI[w.template_uri] = w
            /\ DOMAIN widgets.DATA_ONLY_HANDLERS \cap
                    (DOMAIN widgets.WIDGETS_BY_ID \cup DOMAIN widgets.WIDGET_HANDLERS
                     \cup DOMAIN widgets.WIDGET_INPUT_MODELS) = {}

\* The package is imported with its twelve handlers and its two data-only
\* tools.
C23_Witness ==
    /\ discovery.status = "imported"
    /\ Cardinality(DOMAIN widgets.WIDGET_HANDLERS) = 12
    /\ DOMAIN widgets.DATA_ONLY_HANDLERS = {"poll_system_stats", "geocode"}


----------------------------------------------------------------------------
(* Claims about concurrent loads, checked under SpecRace *)

\* What one load of c alone, from the empty cache, returns and records.
Sequential(c) ==
    LET r == _resolve_html_path(c)
    IN  [html |-> RewriteHtml(files[r.path].content, get_base_url),
         mtime |-> files[r.path].mtime]

\* The calls that load c, and whether they have all returned.
LoadersOf(c) == {t \in LoaderIds : loaders[t].component_name = c}
AllReturned(c) == \A t \in LoadersOf(c) : loaders[t].pc = "returned"

\* C22: for any interleaving of two concurrent calls of load_widget_html for
\* the same component, both starting with no cache entry and the file
\* unchanged, both calls return the same HTML, that of a single sequential
\* load, and once both have returned the cache entry (html and mtime) is the
\* one a single sequential load would have produced.
C22_BenignRace ==
    \A c \in Components :
        /\ \A t1, t2 \in LoadersOf(c) :
                (loaders[t1].pc = "returned" /\ loaders[t2].pc = "returned")
                    => /\ loaders[t1].ret = loaders[t2].ret
                       /\ loaders[t1].ret = Sequential(c).html
        /\ (LoadersOf(c) # {} /\ AllReturned(c))
                => /\ c \in DOMAIN _html_cache /\ c \in DOMAIN _html_mtimes
                   /\ _html_cache[c] = Sequential(c).html
                   /\ _html_mtimes[c] = Sequential(c).mtime

\* Two calls for the QR widget both found no entry, both read and rewrote a
\* file with relative references, and both have returned.
C22_Witness ==
    /\ \A t \in {1, 2} :
            /\ loaders[t].pc = "returned"
            /\ loaders[t].component_name = <<"q", "r">>
            /\ loaders[t].read
            /\ loaders[t].ret # files[loaders[t].html_path].content


----------------------------------------------------------------------------
(* Claims about POST /tools/call, checked under SpecBridge *)

\* The body carries no tool name: it is no JSON object, or the object's name is
\* absent, null or empty.
MissingName(body) ==
    body.json # "object" \/ Falsy(BodyGet(body.name, Null))

\* The handler's result for a body, when the handler can be called with it.
HandlerRuns(body) ==
    /\ ~MissingName(body)
    /\ ParamsValid(BodyGet(body.name, Null), BodyGet(body.arguments, ObjVal(<< >>)))

HandlerResult(body, imaging, upstream) ==
    handle_call_tool(mock_req(BodyGet(body.name, Null),
                              BodyGet(body.arguments, ObjVal(<< >>))),
                     imaging, upstream)

\* The outcome the mapping names for a body, in an environment where the
\* imaging library and the upstream service are as given and the assets are
\* as the state has them.
MappedOutcome(response, body, imaging, upstream) ==
    IF MissingName(body) THEN response.status_code = 400
    ELSE
    LET ran == HandlerRuns(body)
        result == HandlerResult(body, imaging, upstream)
        name == BodyGet(body.name, Null).v
        widget == Lookup(WIDGETS_BY_ID, name)
    IN  IF ran /\ result.kind # "raised" /\ result.isError
        THEN /\ response.status_code = 404
             /\ response.body = [error |-> result.content[1].text]
        ELSE IF ran /\ result.kind = "raised"
        THEN response.status_code = 500
        ELSE IF ran /\ widget # None /\ ~_resolve_html_path(widget.component_name).found
        THEN response.status_code = 500
        ELSE /\ response.status_code = 200
             /\ response.body.tool_name = name
             /\ "tool_output" \in DOMAIN response.body
             /\ ("html" \in DOMAIN response.body) <=> (ran /\ widget # None)

\* The endpoint answers the request in this step.
Answering == req.kind = "POST /tools/call" /\ resp = NoResponse /\ resp' # NoResponse

\* C30: POST /tools/call always answers with a response, never an exception:
\* a missing tool name yields 400; a handler error result yields 404 with the
\* handler's error text; an exception of the handler or of the HTML load
\* yields 500; otherwise 200 with tool_name and tool_output, and an html field
\* exactly when the tool is a registered widget.
C30_OutcomeMapping ==
    [][Answering
        => /\ resp'.kind = "JSONResponse"
           /\ \E imaging \in ImagingLibraries, upstream \in UpstreamOutcomes :
                MappedOutcome(resp', req.body, imaging, upstream)]_vars

\* The bodies the mapping describes: JSON objects whose name, when there is
\* one, is a string and whose arguments are an object or null.  On these the
\* endpoint follows the mapping.
WellFormed(body) ==
    body.json = "object" /\ (MissingName(body) \/ HandlerRuns(body))

OutcomeMappingOnWellFormed ==
    [][(Answering /\ WellFormed(req.body))
        => /\ resp'.kind = "JSONResponse"
           /\ \E imaging \in ImagingLibraries, upstream \in UpstreamOutcomes :
                MappedOutcome(resp', req.body, imaging, upstream)]_vars


----------------------------------------------------------------------------
(* Claims about the chat simulator, checked under SpecChat *)

\* The add_message calls made on one conversation id, in order, and those of
\* them that task t made.
IdLog(id) == SelectSeq(tasks.log, LAMBDA e : e.id = id)
TurnOf(t, id) == {k \in DOMAIN IdLog(id) : IdLog(id)[k].task = t}

\* Task t has recorded its turn on id: its prompt, and next to it its reply.
Recorded(t, id, prompt, reply) ==
    \E k \in DOMAIN IdLog(id) :
        /\ TurnOf(t, id) = {k, k + 1}
        /\ IdLog(id)[k].role = "user" /\ IdLog(id)[k].content = prompt
        /\ IdLog(id)[k + 1].role = "assistant" /\ IdLog(id)[k + 1].content = reply

Answered200(t) ==
    tasks.calls[t].pc = "done" /\ tasks.calls[t].response.status_code = 200

\* C27: under any interleaving of concurrent run_agent calls, each call appends
\* to a history either nothing (it has not got that far, or it failed) or its
\* user prompt immediately followed by its own assistant reply, with no other
\* call's message between the two; between its two appends no other call
\* appends.
C27_AtomicTurn ==
    \A t \in TaskIds :
        LET call == tasks.calls[t]
        IN  /\ (call.pc \in {"idle", "await_run", "extract", "failed"}
                    \/ (call.pc = "done" /\ ~Answered200(t)))
                => \A id \in ConversationIds : TurnOf(t, id) = {}
            /\ call.pc = "add_assistant"
                => LET L == IdLog(call.conversation_id)
                   IN  /\ TurnOf(t, call.conversation_id) = {Len(L)}
                       /\ L[Len(L)].role = "user" /\ L[Len(L)].content = call.prompt
            /\ call.pc = "return"
                => Recorded(t, call.conversation_id, call.prompt, call.final_message)
            /\ Answered200(t)
                => /\ \E prompt \in {m.v : m \in ChatMessages} :
                        Recorded(t, call.response.body.conversation_id, prompt,
                                 call.response.body.message)
                   /\ \A id \in ConversationIds \ {call.response.body.conversation_id} :
                        TurnOf(t, id) = {}

\* One call has recorded its turn while another call on the same conversation
\* awaits its agent.
C27_Witness ==
    /\ tasks.calls[1].pc = "await_run"
    /\ tasks.calls[2].pc = "return"
    /\ tasks.calls[1].conversation_id = tasks.calls[2].conversation_id
    /\ Recorded(2, tasks.calls[2].conversation_id, tasks.calls[2].prompt,
                tasks.calls[2].final_message)

\* C28: the input run_agent passes to the agent runner is the prompt alone: it
\* is the input the same prompt gives when no history is stored, whatever the
\* stored history of the conversation, and two calls with the same prompt pass
\* the same input.
C28_HistoryWriteOnly ==
    /\ \A t \in TaskIds :
            tasks.calls[t].pc = "await_run"
                => tasks.calls[t].runner_input = RunnerInput(<< >>, tasks.calls[t].prompt)
    /\ \A t1, t2 \in TaskIds :
            (tasks.calls[t1].pc = "await_run" /\ tasks.calls[t2].pc = "await_run"
                /\ tasks.calls[t1].prompt = tasks.calls[t2].prompt)
                => tasks.calls[t1].runner_input = tasks.calls[t2].runner_input

\* A call runs the agent on a conversation that has a stored history.
C28_Witness ==
    \E t \in TaskIds :
        /\ tasks.calls[t].pc = "await_run"
        /\ tasks.calls[t].seen # << >>
        /\ HistoryOf(tasks.calls[t].conversation_id) # << >>

\* The name of the most recently preceding ToolCallItem of item k, "" when
\* there is none or it has no name.
RECURSIVE Attributed(_, _)
Attributed(items, k) ==
    IF k <= 1 THEN ""
    ELSE IF items[k - 1].type = "ToolCallItem"
    THEN (IF items[k - 1].has_name THEN items[k - 1].name ELSE "")
    ELSE Attributed(items, k - 1)

\* The tool is a widget whose HTML can be loaded.
LoadableWidget(tool_name) ==
    /\ tool_name \in DOMAIN WIDGETS_BY_ID
    /\ _resolve_html_path(WIDGETS_BY_ID[tool_name].component_name).found

\* The output items that give a widget.
Qualifying(items) ==
    {k \in DOMAIN items :
        items[k].type = "ToolCallOutputItem" /\ LoadableWidget(Attributed(items, k))}

\* The extraction named by the claim: the widget of the last qualifying
\* output, none when there is none.
ExtractedAsClaimed(call) ==
    LET q == Qualifying(call.new_items)
    IN  IF q = {} THEN call.widget_result = NoWidget
        ELSE LET k == CHOOSE x \in q : \A y \in q : y <= x
             IN  /\ call.widget_result # NoWidget
                 /\ call.at = k
                 /\ call.widget_result.tool_name = Attributed(call.new_items, k)
                 /\ call.widget_result.tool_output = ParseOutput(call.new_items[k].output)

\* C29: over the ordered result items, each ToolCallOutputItem is attributed to
\* the name of the most recently preceding ToolCallItem; the extraction ends
\* with the widget built from the last output whose attributed tool is a
\* widget with loadable HTML, an output of a non-widget tool neither creates
\* nor overwrites a widget, and with no such output there is no widget.
C29_WidgetExtraction ==
    [][\A t \in TaskIds :
        tasks.calls[t].pc = "extract"
            => /\ tasks'.calls[t].pc \in {"extract", "add_assistant"}
               /\ tasks'.calls[t].pc = "add_assistant"
                    => ExtractedAsClaimed(tasks'.calls[t])]_vars

\* The extraction on the runs where every named tool call has a name and no
\* output is attributed to a widget whose HTML is missing: on these the
\* extraction is the one above.
Regular(items) ==
    \A k \in DOMAIN items :
        /\ items[k].type = "ToolCallItem" => items[k].has_name
        /\ (items[k].type = "ToolCallOutputItem"
                /\ Attributed(items, k) \in DOMAIN WIDGETS_BY_ID)
            => LoadableWidget(Attributed(items, k))

WidgetExtractionOnRegular ==
    [][\A t \in TaskIds :
        (tasks.calls[t].pc = "extract" /\ Regular(tasks.calls[t].new_items))
            => /\ tasks'.calls[t].pc \in {"extract", "add_assistant"}
               /\ tasks'.calls[t].pc = "add_assistant"
                    => ExtractedAsClaimed(tasks'.calls[t])]_vars

\* The conversation ids POST /chat accepts.
ChatAccepts(conversation_id) == conversation_id.t \in {"absent", "null", "str"}

\* The step is a request POST /chat/reset.
Resetting == convRet'.op = "clear" /\ UNCHANGED tasks

\* C26: for every conversation id c that POST /chat accepts, a POST /chat/reset
\* carrying the same c empties the history /chat records under c, and leaves
\* the histories of all other ids unchanged.
C26_ResetAgreesWithChat ==
    [][(Resetting /\ ChatAccepts(convRet'.id))
        => LET recorded == ChatConversationId(convRet'.id)
           IN  /\ recorded \notin DOMAIN conversations'
               /\ \A id \in DOMAIN conversations \ {recorded} :
                    /\ id \in DOMAIN conversations'
                    /\ conversations'[id] = conversations[id]]_vars

\* The agreement on the ids that are non-empty strings, and on an absent id.
ResetAgreesOnNames ==
    [][(Resetting /\ convRet'.id.t = "str" /\ convRet'.id.v # "")
        => LET recorded == ChatConversationId(convRet'.id)
           IN  /\ recorded \notin DOMAIN conversations'
               /\ \A id \in DOMAIN conversations \ {recorded} :
                    /\ id \in DOMAIN conversations'
                    /\ conversations'[id] = conversations[id]]_vars


----------------------------------------------------------------------------
(* Claims about the sandbox proxy, checked under SpecSandbox *)

\* C24: importing the server module never starts the sandbox proxy; the ASGI
\* wrapper starts it on the first lifespan or request event it receives, and
\* it is started at most once per process.
C24_LazySandboxStart ==
    /\ sandbox.events = << >> => sandbox.servers = 0
    /\ sandbox.events # << >> => sandbox.servers = 1
    /\ sandbox.servers <= 1

\* What the wrapper does: the proxy runs exactly when a lifespan.startup has
\* been received, the import alone starts nothing, and one server runs at
\* most, a second lifespan.startup ending in OSError.
StartsOnLifespanStartup ==
    /\ sandbox.servers = (IF \E k \in DOMAIN sandbox.events :
                                sandbox.events[k] = "lifespan.startup"
                          THEN 1 ELSE 0)
    /\ sandbox.raised <=>
            Cardinality({k \in DOMAIN sandbox.events :
                            sandbox.events[k] = "lifespan.startup"}) > 1


----------------------------------------------------------------------------
(* Claims about the scenario projection, checked under SpecScenario *)

Projected == scenario.op \in {"_calculate_projections", "_calculate_summary"}

StrictlyIncreasingMrr ==
    \A month \in 1..11 :
        FLess(scenario.projections[month].mrr, scenario.projections[month + 1].mrr)

\* The months whose netProfit is >= 0.
ProfitableMonths ==
    {month \in 1..12 : FSign(scenario.projections[month].netProfit) >= 0}

BreakEvenIsFirstProfitable ==
    (scenario.op = "_calculate_summary" /\ scenario.summary.kind = "summary")
        => LET b == scenario.summary.breakEvenMonth
           IN  IF ProfitableMonths = {} THEN b = 0
               ELSE b \in ProfitableMonths /\ \A month \in ProfitableMonths : b <= month

Ordinary(inputs) ==
    /\ ~FLess(inputs.starting_mrr, FromInt(1))
    /\ ~FLess(FromInt(1000000), inputs.starting_mrr)
    /\ \A rate \in {inputs.monthly_growth_rate, inputs.monthly_churn_rate} :
            FSign(rate) >= 0 /\ ~FLess(FromInt(100), rate)
    /\ ~FLess(FSub(inputs.monthly_growth_rate, inputs.monthly_churn_rate), FromInt(1))

====
